---------------------------- MODULE Spec2Model ----------------------------
(***************************************************************************)
(* A model of the virtio-net driver of net/virtio.cc: the split virtqueue  *)
(* engine (class vring), the transmit queue (qp::txq), the receive queue   *)
(* (qp::rxq) and the host on the other side of the shared rings.           *)
(*                                                                         *)
(* One vring is modelled.  The specification Spec runs it as the transmit  *)
(* ring of a queue pair, FairSpec does so in interrupt mode under the      *)
(* reactor's scheduling, SpecRx runs it as the receive ring, SpecKick      *)
(* applies the kick policy to arbitrary ring words.  The two rings of a qp *)
(* share no state, so each is run on its own.                              *)
(*                                                                         *)
(* The driver is one reactor thread: it is at one place at a time (pc),    *)
(* and runs the continuations the futures schedule from a FIFO task queue. *)
(* The host runs concurrently and touches only the shared ring words.      *)
(* The 16-bit ring counters are modelled with a reduced width: one bit     *)
(* more than the ring index.                                               *)
(***************************************************************************)
EXTENDS Integers, Sequences, FiniteSets, TLC

---------------------------------------------------------------------------
(* Bounds of the model *)

\* log2 of the ring size N used by Spec and SpecRx
RingBits == 2
\* a transmitted packet has 1 or MaxFrags fragments
MaxFrags == 2
\* number of txq.post calls in a run
MaxSends == 3
\* the host spreads a received packet over 1 or MaxMerge buffers
MaxMerge == 2
\* number of packets the host receives in a run
MaxRxPkts == 2
\* log2 of the ring size used by SpecBatch
BatchRingBits == 6
\* number of txq.post calls in a run of SpecBatch
MaxBatchSends == 18
\* largest value of the option virtio-ring-size in SpecNeg
MaxRingSizeOpt == 8
\* how far the packets of SpecHdr exceed mtu + eth_hdr_len
MaxOver == 2
\* number of txq.post calls of SpecWrap beyond the range of the counters
MaxWrapOver == 1

---------------------------------------------------------------------------
(* Program constants *)

VRING_AVAIL_F_NO_INTERRUPT == 1
VRING_USED_F_NO_NOTIFY == 1
\* sizeof(net_hdr), sizeof(net_hdr_mrg)
NetHdrLen == 10
NetHdrMrgLen == 12
\* net_hdr::gso_none, gso_tcpv4, gso_udp
GSO_NONE == 0
GSO_TCPV4 == 1
GSO_UDP == 3
\* sizeof(eth_hdr), the headers of IPv4, TCP and UDP without options
EthHdrLen == 14
IpHdrLen == 20
TcpHdrLen == 20
UdpHdrLen == 8
\* hw_features::mtu
Mtu == 1500
\* the shortest Ethernet frame without its check sequence
MinFrameLen == 60
\* the receive buffer size
RxBufLen == 4096
\* malloc(4096) of an allocator that serves whole pages, and of one that
\* aligns its blocks to 16 bytes behind a header
MallocOffsets == {0, 16}
\* vring::post flushes the batch at this size
BatchFlush == 16

RECURSIVE Pow2(_)
Pow2(n) == IF n = 0 THEN 1 ELSE 2 * Pow2(n - 1)

RECURSIVE BitAnd(_, _)
BitAnd(a, b) ==
    IF a = 0 \/ b = 0 THEN 0
    ELSE (a % 2) * (b % 2) + 2 * BitAnd(a \div 2, b \div 2)

---------------------------------------------------------------------------
VARIABLES
    \* vring::config and the mode
    size, event_index, poll_mode, header_len,
    \* the offset in its page of the block malloc(4096) returns
    malloc_off,
    \* device::_features and _hw_features, the features vhost advertises,
    \* the set given to VHOST_SET_FEATURES
    features, hw_features, host_features, negotiated,
    \* the program options
    opts,
    \* the shared ring memory
    descs, avail_flags, avail_idx, avail_ring, used_event,
    used_flags, used_idx, used_ring, avail_event,
    \* the receive buffers' first bytes, written by the host: num_buffers
    buf_hdr,
    \* vring's private state
    avail_head, added_since_kick, used_tail, completions,
    free_head, free_last, batch, sem, wait_list,
    \* the reactor: where the driver thread is, its locals, its task queue
    pc, caller, used_head_l, tasks, started, waiting, aborted,
    \* the two eventfds of the notifier
    kick_pending, call_pending,
    \* the host
    host_pc, host_avail, host_inflight, host_upc, host_seen, host_rx_left,
    host_rx_pkts,
    \* the callers of txq.post, the rxq's reassembly state, l2receive
    nsent, pkt_frags, remaining_buffers, fragments, deleters, delivered,
    \* the packet given to txq.post (length and offload_info), its header
    tx_pkt, vhdr,
    \* desc_head of the chain vring::post is publishing
    post_desc_head,
    \* the deleters of the delivered packets, the calls of free()
    pkt_del, freed,
    next_buf,
    \* the number of receive completions that have run
    rx_done

cfg_vars == <<size, event_index, poll_mode, header_len, malloc_off,
              features, hw_features, host_features, negotiated, opts>>
shm_vars == <<descs, avail_flags, avail_idx, avail_ring, used_event,
              used_flags, used_idx, used_ring, avail_event, buf_hdr>>
ring_vars == <<avail_head, added_since_kick, used_tail, completions,
               free_head, free_last, batch, sem, wait_list>>
reactor_vars == <<pc, caller, used_head_l, tasks, started, waiting, aborted>>
notifier_vars == <<kick_pending, call_pending>>
host_vars == <<host_pc, host_avail, host_inflight, host_upc, host_seen,
               host_rx_left, host_rx_pkts>>
txq_vars == <<nsent, pkt_frags, tx_pkt, vhdr, post_desc_head>>
rxq_vars == <<remaining_buffers, fragments, deleters, delivered, next_buf,
              rx_done, pkt_del, freed>>

vars == <<cfg_vars, shm_vars, ring_vars, reactor_vars, notifier_vars,
          host_vars, txq_vars, rxq_vars>>

\* the ring counters are one bit wider than the largest ring index, as the
\* program's 16 bits are for its largest ring of 32768 descriptors:
\* uint16_t arithmetic, at the reduced width
IdxMod == 2 * size
\* a counter one bit wider
U16_wide(x) == (x + 4 * IdxMod) % (2 * IdxMod)
U16(x) == (x + 4 * IdxMod) % IdxMod
\* (uint16_t)(~0) / 2
KickThreshold == (IdxMod - 1) \div 2

---------------------------------------------------------------------------
(* vring helpers *)

Slots == 0 .. (size - 1)

mask == size - 1
masked(idx) == BitAnd(idx, mask)

\* a promise<size_t> of the _completions table
NoCompletion == [kind |-> "none", arg |-> 0]
FiredCompletion == [kind |-> "fired", arg |-> 0]

ZeroDesc(i) == [paddr |-> 0, len |-> 0, has_next |-> FALSE,
                writeable |-> FALSE, next |-> i + 1]


\* allocate_desc leaving _free_last when it takes the last descriptor
allocate_desc_keep_last(fh, fl, ds) ==
    IF fh = -1 THEN [ok |-> FALSE, desc |-> -1, fh |-> fh, fl |-> fl]
    ELSE IF fh = fl THEN [ok |-> TRUE, desc |-> fh, fh |-> -1, fl |-> fl]
    ELSE [ok |-> TRUE, desc |-> fh, fh |-> ds[fh].next, fl |-> fl]

\* vring::allocate_desc on the free list (fh, fl) threaded through ds:
\* the popped descriptor and the new head and tail; ok is the assertion
allocate_desc(fh, fl, ds) ==
    IF fh = -1 THEN [ok |-> FALSE, desc |-> -1, fh |-> fh, fl |-> fl]
    ELSE IF fh = fl THEN [ok |-> TRUE, desc |-> fh, fh |-> -1, fl |-> -1]
    ELSE [ok |-> TRUE, desc |-> fh, fh |-> ds[fh].next, fl |-> fl]

\* fill_desc without the has_next mark on the descriptor before
fill_desc_unlinked(ds, prev, d, b) ==
    [ds EXCEPT ![d].has_next = FALSE,
               ![d].writeable = b.writeable,
               ![d].paddr = b.addr,
               ![d].len = b.len]

\* the linking of descriptor d behind prev (-1: the pseudo head) and its
\* filling from buffer b, lines 455-463
fill_desc(ds, prev, d, b) ==
    LET linked == IF prev = -1 THEN ds
                  ELSE [ds EXCEPT ![prev].has_next = TRUE, ![prev].next = d]
    IN [linked EXCEPT ![d].has_next = FALSE,
                      ![d].writeable = b.writeable,
                      ![d].paddr = b.addr,
                      ![d].len = b.len]

\* the inner loop of vring::post over the buffers bufs[i..] of one chain.
\* st = [descs, fh, fl, head, ok]
RECURSIVE post_bufs(_, _, _, _)
post_bufs(st, bufs, i, prev) ==
    IF i > Len(bufs) \/ ~st.ok THEN st
    ELSE LET a == allocate_desc(st.fh, st.fl, st.descs)
         IN IF ~a.ok THEN [st EXCEPT !.ok = FALSE]
            ELSE post_bufs([descs |-> fill_desc(st.descs, prev, a.desc, bufs[i]),
                            fh |-> a.fh, fl |-> a.fl,
                            head |-> IF prev = -1 THEN a.desc ELSE st.head,
                            ok |-> TRUE],
                           bufs, i + 1, a.desc)

\* publish_head with the batch filled at its front
publish_head_front(r, desc_head) ==
    IF ~poll_mode
    THEN [ring |-> [r.ring EXCEPT ![masked(r.head)] = desc_head],
          head |-> U16(r.head + 1), batch |-> r.batch]
    ELSE [ring |-> r.ring, head |-> r.head,
          batch |-> <<desc_head>> \o r.batch]

\* publish_head losing the head
publish_head_lost(r, desc_head) == r

\* the publication of one chain head, lines 467-471: into the avail ring in
\* interrupt mode, into the batch in poll mode.  r = [ring, head, batch]
publish_head(r, desc_head) ==
    IF ~poll_mode
    THEN [ring |-> [r.ring EXCEPT ![masked(r.head)] = desc_head],
          head |-> U16(r.head + 1), batch |-> r.batch]
    ELSE [ring |-> r.ring, head |-> r.head,
          batch |-> Append(r.batch, desc_head)]

\* the for_each of vring::post over the chains bcs[k..].
\* st = [descs, fh, fl, compl, ring, head, batch, added, ok]
RECURSIVE post_chains(_, _, _)
post_chains(st, bcs, k) ==
    IF k > Len(bcs) \/ ~st.ok THEN st
    ELSE LET c == post_bufs([descs |-> st.descs, fh |-> st.fh, fl |-> st.fl,
                             head |-> 0, ok |-> TRUE], bcs[k].bufs, 1, -1)
             p == publish_head([ring |-> st.ring, head |-> st.head,
                                batch |-> st.batch], c.head)
         IN IF ~c.ok THEN [st EXCEPT !.ok = FALSE]
            ELSE post_chains([descs |-> c.descs, fh |-> c.fh, fl |-> c.fl,
                              compl |-> [st.compl EXCEPT ![c.head] = bcs[k].completed],
                              ring |-> p.ring, head |-> p.head, batch |-> p.batch,
                              added |-> U16(st.added + 1), ok |-> TRUE],
                             bcs, k + 1)

\* the batch flushed one head late
batch_full_late(b) == Len(b) > BatchFlush

\* the test of line 478: the batch has reached 16 heads
batch_full(b) == Len(b) >= BatchFlush

\* the copy of the batch into the avail ring by vring::flush_batch
RECURSIVE flush_ring(_, _, _)
flush_ring(ring, head, b) ==
    IF b = <<>> THEN [ring |-> ring, head |-> head]
    ELSE flush_ring([ring EXCEPT ![masked(head)] = Head(b)], U16(head + 1), Tail(b))

\* the host's notifications taken for disabled whatever the flag says
notifications_disabled_always(flags) == TRUE

notifications_disabled(flags) == BitAnd(flags, VRING_USED_F_NO_NOTIFY) # 0

\* the event-index test without the - 1
event_kick_off_by_one(aidx, aevent, added) == U16(aidx - aevent) < added

\* the event-index test of vring::kick, line 357
event_kick(aidx, aevent, added) == U16(aidx - aevent - 1) < added

\* no forced kick
forced_kick_never(added) == FALSE

\* the forced kick of line 362
forced_kick(added) == added >= KickThreshold

\* vring::kick with the forced kick ahead of the NO_NOTIFY test
need_kick_forced_first(ev, aidx, aevent, added, uflags) ==
    IF ev
    THEN event_kick(aidx, aevent, added) \/ forced_kick(added)
    ELSE ~notifications_disabled(uflags) \/ forced_kick(added)

\* whether vring::kick calls notify(), from the words it reads: without
\* event index it returns at once when the host disabled notifications
need_kick(ev, aidx, aevent, added, uflags) ==
    IF ev
    THEN event_kick(aidx, aevent, added) \/ forced_kick(added)
    ELSE ~notifications_disabled(uflags)

\* the last descriptor of the chain starting at id, lines 496-504
RECURSIVE chain_last(_, _)
chain_last(ds, id) == IF ds[id].has_next THEN chain_last(ds, ds[id].next) ELSE id

\* the descriptors of the chain starting at id, in chain order
RECURSIVE chain_of(_, _)
chain_of(ds, id) ==
    IF ds[id].has_next THEN <<id>> \o chain_of(ds, ds[id].next) ELSE <<id>>

\* splice_free taking the chain's head for its last descriptor
splice_free_head_only(ds, fh, fl, id) ==
    [descs |-> IF fl # -1 THEN [ds EXCEPT ![fl].next = id] ELSE ds,
     fh |-> IF fl # -1 THEN fh ELSE id,
     fl |-> id]

\* the splice of the chain at id onto the tail of the free list, lines
\* 490-505: [descs, fh, fl]
splice_free(ds, fh, fl, id) ==
    [descs |-> IF fl # -1 THEN [ds EXCEPT ![fl].next = id] ELSE ds,
     fh |-> IF fl # -1 THEN fh ELSE id,
     fl |-> chain_last(ds, id)]

\* enable_interrupts storing nothing
arm_word_stale(flags, event, tail) == [flags |-> flags, event |-> event]

\* the word enable_interrupts stores to arm the host's interrupt:
\* [flags, event] from the current ones
arm_word(flags, event, tail) ==
    IF ~event_index THEN [flags |-> 0, event |-> event]
    ELSE [flags |-> flags, event |-> tail]

\* enable_interrupts without the re-check
pending_after_arm_never(uidx, tail) == FALSE

\* the re-check of enable_interrupts: are there pending buffers
pending_after_arm(uidx, tail) == uidx # tail

---------------------------------------------------------------------------
(* The semaphore of core/semaphore.hh: a counter and a FIFO of waiters.    *)

\* semaphore::wait(nr) succeeds at once
sem_ready(count, wl, nr) == count >= nr /\ wl = <<>>

\* semaphore::signal: the waiters at the front are granted while their
\* requests fit.  [count, wl, granted]
RECURSIVE sem_grant(_, _, _)
sem_grant(count, wl, granted) ==
    IF wl # <<>> /\ Head(wl).nr <= count
    THEN sem_grant(count - Head(wl).nr, Tail(wl), Append(granted, Head(wl)))
    ELSE [count |-> count, wl |-> wl, granted |-> granted]

sem_signal(count, wl, nr) == sem_grant(count + nr, wl, <<>>)

\* the continuation of a granted waiter, as a task of the reactor
TaskOf(w) == [type |-> w.type, a |-> w.a, b |-> w.nr]

RECURSIVE TasksOf(_)
TasksOf(ws) == IF ws = <<>> THEN <<>> ELSE <<TaskOf(Head(ws))>> \o TasksOf(Tail(ws))

---------------------------------------------------------------------------
(* The packets handed to txq.post *)

Pkts == 1 .. MaxSends

\* the address and size of fragment i of packet p; fragment 0 is the
\* virtio-net header the txq prepends
FragAddr(p, i) == 16 * p + i
FragSize(p, i) == IF i = 0 THEN header_len ELSE 100 * p + i

\* the packet q of txq::post: the header fragment, then p's fragments
packet_frags(p, k) == [i \in 1 .. (k + 1) |->
                         [base |-> FragAddr(p, i - 1), size |-> FragSize(p, i - 1)]]

\* fragment_to_buffer, lines 646-652
fragment_to_buffer(f) == [addr |-> f.base, len |-> f.size, writeable |-> FALSE]

\* tx_chain whose completion signals one permit more than the wait took
tx_chain_signal_more(p, k) ==
    LET q == packet_frags(p, k)
    IN [bufs |-> [i \in 1 .. Len(q) |-> fragment_to_buffer(q[i])],
        completed |-> [kind |-> "tx", arg |-> Len(q) + 1]]

\* packet_as_buffer_chain with its completion, lines 653-667
tx_chain(p, k) ==
    LET q == packet_frags(p, k)
    IN [bufs |-> [i \in 1 .. Len(q) |-> fragment_to_buffer(q[i])],
        completed |-> [kind |-> "tx", arg |-> Len(q)]]

---------------------------------------------------------------------------
(* The feature bits *)

\* device::setup_features, lines 41-69: the features the driver offers, from
\* the options event-index, csum-offload, tso and ufo (TRUE unless "off")
setup_features(ev, csum, tso, ufo) ==
    {"INDIRECT_DESC", "MRG_RXBUF", "MAC"}
    \cup (IF ev THEN {"EVENT_IDX"} ELSE {})
    \cup (IF csum THEN {"CSUM", "GUEST_CSUM"} ELSE {})
    \cup (IF tso THEN {"HOST_TSO4", "GUEST_TSO4"} ELSE {})
    \cup (IF ufo THEN {"HOST_UFO", "GUEST_UFO"} ELSE {})

\* _hw_features as setup_features leaves it
setup_hw_features(csum, tso, ufo) ==
    [tx_csum_l4_offload |-> csum, rx_csum_offload |-> csum,
     tx_tso |-> tso, tx_ufo |-> ufo, mtu |-> Mtu]

\* net_hdr_mrg vhdr = {}
ZeroHdr ==
    [needs_csum |-> 0, gso_type |-> GSO_NONE, hdr_len |-> 0, gso_size |-> 0,
     csum_start |-> 0, csum_offset |-> 0]

\* the checksum fields of the header, lines 611-615 and 627-631
hdr_csum(h, p, offset) ==
    IF p.needs_csum
    THEN [h EXCEPT !.needs_csum = 1,
                   !.csum_start = EthHdrLen + p.ip_hdr_len,
                   !.csum_offset = offset]
    ELSE h

\* the segmentation fields of the header, lines 616-623 and 632-636
hdr_gso(h, p, hw, on, type, l4_hdr_len) ==
    IF on /\ p.len > hw.mtu + EthHdrLen
    THEN [h EXCEPT !.gso_type = type,
                   !.hdr_len = EthHdrLen + p.ip_hdr_len + l4_hdr_len,
                   !.gso_size = hw.mtu - p.ip_hdr_len - l4_hdr_len]
    ELSE h

\* the header qp::txq::post builds for packet p, lines 600-638
tx_header(hw, p) ==
    IF ~hw.tx_csum_l4_offload THEN ZeroHdr
    ELSE IF p.protocol = "tcp"
    THEN hdr_gso(hdr_csum(ZeroHdr, p, 16), p, hw, hw.tx_tso, GSO_TCPV4,
                 p.tcp_hdr_len)
    ELSE IF p.protocol = "udp"
    THEN hdr_gso(hdr_csum(ZeroHdr, p, 6), p, hw, hw.tx_ufo, GSO_UDP,
                 p.udp_hdr_len)
    ELSE ZeroHdr

\* a packet with the offload_info of protocol proto
TxPacket(proto, len, csum) ==
    [protocol |-> proto, len |-> len, needs_csum |-> csum,
     ip_hdr_len |-> IpHdrLen, tcp_hdr_len |-> TcpHdrLen, udp_hdr_len |-> UdpHdrLen]

\* a frame that is neither TCP nor UDP
PlainFrame == TxPacket("other", MinFrameLen, FALSE)

\* qp::common_config, line 762: r.event_index from _dev->features()
ring_event_index(feat, neg) == "EVENT_IDX" \in feat

\* qp_vhost::qp_vhost, lines 820-824
net_header_len(neg) == IF "MRG_RXBUF" \in neg THEN NetHdrMrgLen ELSE NetHdrLen

\* the default of virtio-ring-size
DefaultRingSize == 256

\* config_ring_size, lines 803-809: virtio-ring-size is read only if the
\* option event-index was given
config_ring_size(o) ==
    IF o.event_index # "absent" THEN o.ring_size ELSE DefaultRingSize

\* the options that give the ring its size and its event_index
GivenOpts ==
    [event_index |-> IF event_index THEN "on" ELSE "off", ring_size |-> size,
     csum |-> TRUE, tso |-> TRUE, ufo |-> TRUE]

\* a host that advertises every feature the driver offers, all options on
\* but event-index, which is as the ring has it
AgreedFeatures ==
    /\ features = setup_features(event_index, TRUE, TRUE, TRUE)
    /\ hw_features = setup_hw_features(TRUE, TRUE, TRUE)
    /\ host_features = features
    /\ negotiated = features

---------------------------------------------------------------------------
(* The state after construction *)

\* vring::vring and vring::setup on zeroed ring storage of n descriptors
InitRing(n) ==
    /\ size = n
    /\ descs = [i \in 0 .. (n - 1) |-> ZeroDesc(i)]
    /\ avail_flags = 0
    /\ avail_ring = [i \in 0 .. (n - 1) |-> 0]
    /\ used_event = 0
    /\ used_idx = 0
    /\ used_ring = [i \in 0 .. (n - 1) |-> [id |-> 0, len |-> 0]]
    /\ used_tail = 0
    /\ completions = [i \in 0 .. (n - 1) |-> NoCompletion]
    /\ free_head = 0 /\ free_last = n - 1
    /\ batch = <<>>
    /\ wait_list = <<>>

\* the words vring::kick reads
InitIdx(aidx, aevent, added, uflags) ==
    /\ avail_idx = aidx /\ avail_head = aidx
    /\ avail_event = aevent
    /\ added_since_kick = added
    /\ used_flags = uflags

\* the host before the first kick
InitHost ==
    /\ buf_hdr = [b \in {} |-> 0]
    /\ host_pc = "sleep" /\ host_avail = 0 /\ host_inflight = <<>>
    /\ host_upc = "idle" /\ host_seen = <<>>
    /\ host_rx_left = 0 /\ host_rx_pkts = <<>>
    /\ kick_pending = FALSE /\ call_pending = FALSE

\* the reactor at p, called from c, with the tasks ts
InitReactor(p, c, ts) ==
    /\ pc = p /\ caller = c /\ used_head_l = 0
    /\ tasks = ts /\ aborted = FALSE
    /\ started = TRUE
    /\ waiting = ~poll_mode

\* no packet was sent or received yet
InitQueues ==
    /\ nsent = 0 /\ pkt_frags = [p \in Pkts |-> 0]
    /\ tx_pkt = PlainFrame /\ vhdr = ZeroHdr /\ post_desc_head = 0
    /\ remaining_buffers = 0 /\ fragments = <<>> /\ deleters = <<>>
    /\ delivered = <<>> /\ next_buf = 0 /\ rx_done = 0
    /\ pkt_del = <<>> /\ freed = <<>>

\* qp_vhost::qp_vhost: the transmit ring is constructed and _txq.run() has
\* run: in interrupt mode the first complete() found the ring empty and the
\* trampoline waits on the notifier; in poll mode the poller is registered
Init ==
    /\ event_index \in BOOLEAN
    /\ malloc_off = 0
    /\ poll_mode \in BOOLEAN
    /\ header_len = NetHdrMrgLen
    /\ AgreedFeatures
    /\ InitRing(Pow2(RingBits))
    /\ opts = GivenOpts
    /\ sem = size
    /\ InitIdx(0, 0, 0, 0)
    /\ InitHost
    /\ InitReactor("idle", "none", <<>>)
    /\ InitQueues

---------------------------------------------------------------------------
(* The driver *)

Running == started /\ ~aborted

\* disable_interrupts without the poll-mode test
dc_entry_any_mode == IF ~event_index THEN "dc_disable" ELSE "dc_load"

\* the entry of do_complete: disable_interrupts stores only in interrupt
\* mode without event index, lines 314-318; else the load of used.idx is next
dc_entry == IF ~poll_mode /\ ~event_index THEN "dc_disable" ELSE "dc_load"

\* the end of do_complete: back in complete(), which waits on the notifier,
\* or back in the task or the poller that called it
dc_return ==
    /\ pc' = "idle"
    /\ waiting' = IF caller = "complete" THEN TRUE ELSE waiting

\* vring::post of the chains bcs, up to the store of avail.idx
VringPost(bcs) ==
    LET st == post_chains([descs |-> descs, fh |-> free_head, fl |-> free_last,
                           compl |-> completions, ring |-> avail_ring,
                           head |-> avail_head, batch |-> batch,
                           added |-> added_since_kick, ok |-> TRUE], bcs, 1)
        flush == st.ok /\ poll_mode /\ batch_full(st.batch)
        fl == flush_ring(st.ring, st.head, st.batch)
    IN IF ~st.ok
       THEN /\ aborted' = TRUE
            /\ pc' = "aborted"
            /\ UNCHANGED <<descs, free_head, free_last, completions, avail_ring,
                           avail_head, batch, added_since_kick, avail_idx, caller>>
       ELSE /\ aborted' = FALSE
            /\ descs' = st.descs
            /\ free_head' = st.fh
            /\ free_last' = st.fl
            /\ completions' = st.compl
            /\ added_since_kick' = st.added
            /\ caller' = "task"
            /\ IF ~poll_mode
               THEN /\ avail_ring' = st.ring
                    /\ avail_head' = st.head
                    /\ batch' = st.batch
                    /\ avail_idx' = st.head
                    /\ pc' = "kick"
               ELSE IF flush
               THEN /\ avail_ring' = fl.ring
                    /\ avail_head' = fl.head
                    /\ batch' = <<>>
                    /\ avail_idx' = fl.head
                    /\ pc' = "kick"
               ELSE /\ avail_ring' = st.ring
                    /\ avail_head' = st.head
                    /\ batch' = st.batch
                    /\ avail_idx' = avail_idx
                    /\ pc' = "idle"

\* qp::txq::post(p): the packet gets its header and waits for nr_frags
\* descriptors; the posting is the continuation of the wait
SendOf(max, ks) ==
    /\ Running /\ pc = "idle"
    /\ nsent < max
    /\ \E k \in ks :
         LET p == nsent + 1
             nr_frags == Len(packet_frags(p, k))
             w == [type |-> "txpost", a |-> p, nr |-> nr_frags]
         IN /\ nsent' = p
            /\ pkt_frags' = [pkt_frags EXCEPT ![p] = k]
            /\ tx_pkt' = tx_pkt /\ post_desc_head' = post_desc_head
            /\ vhdr' = tx_header(hw_features, tx_pkt)
            /\ IF sem_ready(sem, wait_list, nr_frags)
               THEN /\ sem' = sem - nr_frags
                    /\ tasks' = Append(tasks, TaskOf(w))
                    /\ wait_list' = wait_list
               ELSE /\ wait_list' = Append(wait_list, w)
                    /\ UNCHANGED <<sem, tasks>>
    /\ UNCHANGED <<cfg_vars, shm_vars, avail_head, added_since_kick, used_tail,
                   completions, free_head, free_last, batch,
                   pc, caller, used_head_l, started, waiting, aborted,
                   notifier_vars, host_vars, rxq_vars>>

\* the callers of txq.post: MaxSends packets of 1 or MaxFrags fragments
Send == SendOf(MaxSends, {1, MaxFrags})

\* the continuation of the wait in txq::post, lines 645-669
RunTxPost ==
    /\ Running /\ pc = "idle"
    /\ tasks # <<>> /\ Head(tasks).type = "txpost"
    /\ tasks' = Tail(tasks)
    /\ VringPost(<<tx_chain(Head(tasks).a, pkt_frags[Head(tasks).a])>>)
    /\ UNCHANGED <<cfg_vars, avail_flags, used_event, used_flags, used_idx,
                   used_ring, avail_event, buf_hdr, used_tail, sem, wait_list,
                   used_head_l, started, waiting, notifier_vars, host_vars,
                   txq_vars, rxq_vars>>

\* the completion of a transmitted chain, lines 665-667: the descriptors'
\* permits go back to the semaphore and the packet is dropped
RunTxDone ==
    /\ Running /\ pc = "idle"
    /\ tasks # <<>> /\ Head(tasks).type = "txdone"
    /\ LET g == sem_signal(sem, wait_list, Head(tasks).a)
       IN /\ sem' = g.count
          /\ wait_list' = g.wl
          /\ tasks' = Tail(tasks) \o TasksOf(g.granted)
    /\ UNCHANGED <<cfg_vars, shm_vars, avail_head, added_since_kick, used_tail,
                   completions, free_head, free_last, batch,
                   pc, caller, used_head_l, started, waiting, aborted,
                   notifier_vars, host_vars, txq_vars, rxq_vars>>

\* the count kept after a notify()
added_after_kick_kept(nk, added) == added

\* _avail_added_since_kick after vring::kick: reset with the notify(),
\* line 364
added_after_kick(nk, added) == IF nk THEN 0 ELSE added

\* vring::kick, after avail.idx was stored
Kick ==
    /\ Running /\ pc = "kick"
    /\ LET nk == need_kick(event_index, avail_idx, avail_event,
                           added_since_kick, used_flags)
       IN /\ kick_pending' = (nk \/ kick_pending)
          /\ added_since_kick' = added_after_kick(nk, added_since_kick)
    \* post goes on to do_complete in interrupt mode, the poller always
    /\ pc' = IF caller = "task" /\ poll_mode THEN "idle" ELSE dc_entry
    /\ UNCHANGED <<cfg_vars, shm_vars, avail_head, used_tail, completions,
                   free_head, free_last, batch, sem, wait_list,
                   caller, used_head_l, tasks, started, waiting, aborted,
                   call_pending, host_vars, txq_vars, rxq_vars>>

\* the poller of vring::run: flush_batch(), then do_complete()
PollTick ==
    /\ Running /\ pc = "idle" /\ poll_mode
    /\ caller' = "poll"
    /\ IF batch = <<>>
       THEN /\ pc' = dc_entry
            /\ UNCHANGED <<avail_ring, avail_head, batch, avail_idx>>
       ELSE LET fl == flush_ring(avail_ring, avail_head, batch)
            IN /\ avail_ring' = fl.ring
               /\ avail_head' = fl.head
               /\ batch' = <<>>
               /\ avail_idx' = fl.head
               /\ pc' = "kick"
    /\ UNCHANGED <<cfg_vars, descs, avail_flags, used_event, used_flags, used_idx,
                   used_ring, avail_event, buf_hdr, added_since_kick, used_tail,
                   completions, free_head, free_last, sem, wait_list,
                   used_head_l, tasks, started, waiting, aborted,
                   notifier_vars, host_vars, txq_vars, rxq_vars>>

\* complete(): the notifier's wait() resolved, do_complete() runs again
Wake ==
    /\ Running /\ pc = "idle" /\ waiting /\ call_pending
    /\ call_pending' = FALSE
    /\ waiting' = FALSE
    /\ caller' = "complete"
    /\ pc' = dc_entry
    /\ UNCHANGED <<cfg_vars, shm_vars, ring_vars, used_head_l, tasks, started,
                   aborted, kick_pending, host_vars, txq_vars, rxq_vars>>

\* disable_interrupts
DcDisable ==
    /\ Running /\ pc = "dc_disable"
    /\ avail_flags' = VRING_AVAIL_F_NO_INTERRUPT
    /\ pc' = "dc_load"
    /\ UNCHANGED <<cfg_vars, descs, avail_idx, avail_ring, used_event,
                   used_flags, used_idx, used_ring, avail_event, buf_hdr,
                   ring_vars, caller, used_head_l, tasks, started, waiting,
                   aborted, notifier_vars, host_vars, txq_vars, rxq_vars>>

\* the load of used.idx, line 486
DcLoad ==
    /\ Running /\ pc = "dc_load"
    /\ used_head_l' = used_idx
    /\ pc' = "dc_drain"
    /\ UNCHANGED <<cfg_vars, shm_vars, ring_vars, caller, tasks, started, waiting,
                   aborted, notifier_vars, host_vars, txq_vars, rxq_vars>>

\* a completion whose callback is scheduled twice
completion_task_twice(c, len) ==
    IF c.kind = "none" \/ c.kind = "fired" THEN <<>>
    ELSE <<[type |-> c.kind \o "done", a |-> c.arg, b |-> len],
           [type |-> c.kind \o "done", a |-> c.arg, b |-> len]>>

\* the callback a fired completion schedules
completion_task(c, len) ==
    IF c.kind = "tx" THEN <<[type |-> "txdone", a |-> c.arg, b |-> len]>>
    ELSE IF c.kind = "rx" THEN <<[type |-> "rxdone", a |-> c.arg, b |-> len]>>
    ELSE <<>>

\* _used._tail moved by two
used_next_skip(tail) == U16(tail + 2)

\* _used._tail++ of line 488
used_next(tail) == U16(tail + 1)

\* the iteration on a used entry whose id is no descriptor: lines 489-505
\* index _completions and _descs with it unchecked. The read beyond
\* _completions faults, or returns and the id is linked behind _free_last
\* (or becomes _free_head), the descriptor read beyond _descs shows no
\* has_next and the id becomes _free_last; what the program does from there
\* is undefined
drain_out_of_range(id) ==
    \E fault \in BOOLEAN :
       IF fault
       THEN /\ aborted' = TRUE
            /\ UNCHANGED <<descs, free_head, free_last, used_tail, pc>>
       ELSE /\ descs' = IF free_last # -1
                         THEN [descs EXCEPT ![free_last].next = id] ELSE descs
            /\ free_head' = IF free_last # -1 THEN free_head ELSE id
            /\ free_last' = id
            /\ used_tail' = used_next(used_tail)
            /\ pc' = "undefined"
            /\ aborted' = aborted

\* one iteration of the drain loop, lines 487-506
DcDrainOne ==
    /\ Running /\ pc = "dc_drain"
    /\ used_head_l # used_tail
    /\ LET ue == used_ring[masked(used_tail)]
       IN IF ue.id \in Slots
          THEN LET sp == splice_free(descs, free_head, free_last, ue.id)
               IN /\ used_tail' = used_next(used_tail)
                  /\ tasks' = tasks \o completion_task(completions[ue.id], ue.len)
                  /\ completions' = [completions EXCEPT ![ue.id] = FiredCompletion]
                  /\ descs' = sp.descs
                  /\ free_head' = sp.fh
                  /\ free_last' = sp.fl
                  /\ UNCHANGED <<pc, aborted>>
          ELSE /\ drain_out_of_range(ue.id)
               /\ UNCHANGED <<tasks, completions>>
    /\ UNCHANGED <<cfg_vars, avail_flags, avail_idx, avail_ring, used_event,
                   used_flags, used_idx, used_ring, avail_event, buf_hdr,
                   avail_head, added_since_kick, batch, sem, wait_list,
                   caller, used_head_l, started, waiting,
                   notifier_vars, host_vars, txq_vars, rxq_vars>>

\* the drain loop ends and enable_interrupts stores the arm word; in poll
\* mode it returns false and do_complete is over
DcArm ==
    /\ Running /\ pc = "dc_drain"
    /\ used_head_l = used_tail
    /\ IF poll_mode
       THEN /\ dc_return
            /\ UNCHANGED <<avail_flags, used_event>>
       ELSE LET w == arm_word(avail_flags, used_event, used_tail)
            IN /\ avail_flags' = w.flags
               /\ used_event' = w.event
               /\ pc' = "dc_recheck"
               /\ waiting' = waiting
    /\ UNCHANGED <<cfg_vars, descs, avail_idx, avail_ring, used_flags, used_idx,
                   used_ring, avail_event, buf_hdr, ring_vars, caller,
                   used_head_l, tasks, started, aborted, notifier_vars,
                   host_vars, txq_vars, rxq_vars>>

\* after the fence, enable_interrupts reads used.idx again
DcRecheck ==
    /\ Running /\ pc = "dc_recheck"
    /\ IF pending_after_arm(used_idx, used_tail)
       THEN /\ pc' = dc_entry
            /\ waiting' = waiting
       ELSE dc_return
    /\ UNCHANGED <<cfg_vars, shm_vars, ring_vars, caller, used_head_l, tasks,
                   started, aborted, notifier_vars, host_vars, txq_vars,
                   rxq_vars>>

---------------------------------------------------------------------------
(* The host: the other side of the rings (vhost-net or the device)         *)

\* what the host reads of the chain at head: its buffers in order
host_chain(ds, head) ==
    LET c == chain_of(ds, head)
    IN [i \in 1 .. Len(c) |-> [addr |-> ds[c[i]].paddr, len |-> ds[c[i]].len,
                               writeable |-> ds[c[i]].writeable]]

\* the host's test whether to signal the call eventfd after it moved
\* used.idx to uidx
host_may_signal(ev, aflags, uevent, uidx) ==
    IF ev THEN U16(uidx - uevent - 1) = 0
    ELSE BitAnd(aflags, VRING_AVAIL_F_NO_INTERRUPT) = 0

\* the kick eventfd wakes the host, which stops further kicks
HostWake ==
    /\ host_pc = "sleep" /\ kick_pending
    /\ kick_pending' = FALSE
    /\ host_pc' = "run"
    /\ used_flags' = IF event_index THEN used_flags ELSE VRING_USED_F_NO_NOTIFY
    /\ UNCHANGED <<cfg_vars, descs, avail_flags, avail_idx, avail_ring, used_event,
                   used_idx, used_ring, avail_event, buf_hdr, ring_vars,
                   reactor_vars, call_pending, host_avail, host_inflight,
                   host_upc, host_seen, host_rx_left, host_rx_pkts,
                   txq_vars, rxq_vars>>

\* the host takes the next published chain
HostConsume ==
    /\ host_pc = "run" /\ host_avail # avail_idx
    /\ LET head == avail_ring[host_avail % size]
       IN /\ host_seen' = Append(host_seen, host_chain(descs, head))
          /\ host_inflight' = Append(host_inflight, head)
    /\ host_avail' = U16(host_avail + 1)
    /\ UNCHANGED <<cfg_vars, shm_vars, ring_vars, reactor_vars, notifier_vars,
                   host_pc, host_upc, host_rx_left, host_rx_pkts,
                   txq_vars, rxq_vars>>

\* the host found the avail ring empty: it asks for a kick again
HostEnableNotify ==
    /\ host_pc = "run" /\ host_avail = avail_idx
    /\ host_pc' = "recheck"
    /\ avail_event' = IF event_index THEN host_avail ELSE avail_event
    /\ used_flags' = IF event_index THEN used_flags ELSE 0
    /\ UNCHANGED <<cfg_vars, descs, avail_flags, avail_idx, avail_ring, used_event,
                   used_idx, used_ring, buf_hdr, ring_vars, reactor_vars,
                   notifier_vars, host_avail, host_inflight, host_upc, host_seen,
                   host_rx_left, host_rx_pkts, txq_vars, rxq_vars>>

\* and looks at avail.idx once more before it sleeps
HostRecheck ==
    /\ host_pc = "recheck"
    /\ IF host_avail # avail_idx
       THEN /\ host_pc' = "run"
            /\ used_flags' = IF event_index THEN used_flags
                             ELSE VRING_USED_F_NO_NOTIFY
       ELSE /\ host_pc' = "sleep"
            /\ used_flags' = used_flags
    /\ UNCHANGED <<cfg_vars, descs, avail_flags, avail_idx, avail_ring, used_event,
                   used_idx, used_ring, avail_event, buf_hdr, ring_vars,
                   reactor_vars, notifier_vars, host_avail, host_inflight,
                   host_upc, host_seen, host_rx_left, host_rx_pkts,
                   txq_vars, rxq_vars>>

\* the host has transmitted the oldest chain it holds and returns it: it
\* returns the chains in the order it took them, as vhost-net does
HostTxUse ==
    /\ host_upc = "idle"
    /\ host_inflight # <<>>
    /\ used_ring' = [used_ring EXCEPT ![used_idx % size] =
                        [id |-> Head(host_inflight), len |-> 0]]
    /\ host_inflight' = Tail(host_inflight)
    /\ used_idx' = U16(used_idx + 1)
    /\ host_upc' = "signal"
    /\ UNCHANGED <<cfg_vars, descs, avail_flags, avail_idx, avail_ring, used_event,
                   used_flags, avail_event, buf_hdr, ring_vars, reactor_vars,
                   notifier_vars, host_pc, host_avail, host_seen, host_rx_left,
                   host_rx_pkts, txq_vars, rxq_vars>>

\* after a used entry the host reads the arm word and signals the call
\* eventfd if it permits
HostSignal ==
    /\ host_upc = "signal"
    /\ host_upc' = "idle"
    /\ call_pending' = (call_pending \/
                        host_may_signal(event_index, avail_flags, used_event, used_idx))
    /\ UNCHANGED <<cfg_vars, shm_vars, ring_vars, reactor_vars, kick_pending,
                   host_pc, host_avail, host_inflight, host_seen, host_rx_left,
                   host_rx_pkts, txq_vars, rxq_vars>>

---------------------------------------------------------------------------
(* The transmit ring *)

Next ==
    \/ Send \/ RunTxPost \/ RunTxDone
    \/ Kick \/ PollTick \/ Wake
    \/ DcDisable \/ DcLoad \/ DcDrainOne \/ DcArm \/ DcRecheck
    \/ HostWake \/ HostConsume \/ HostEnableNotify \/ HostRecheck
    \/ HostTxUse \/ HostSignal

Spec == Init /\ [][Next]_vars

---------------------------------------------------------------------------
(* What the state shows of the ring *)

\* the descriptors on the free list, from _free_head along next to
\* _free_last; the walk stops after n steps
RECURSIVE free_walk(_, _, _, _)
free_walk(ds, cur, last, n) ==
    IF cur = -1 \/ n = 0 \/ cur \notin DOMAIN ds THEN <<>>
    ELSE IF cur = last THEN <<cur>>
    ELSE <<cur>> \o free_walk(ds, ds[cur].next, last, n - 1)

FreeList == free_walk(descs, free_head, free_last, size + 1)

SeqSet(q) == {q[i] : i \in 1 .. Len(q)}

\* the heads of the chains posted and not yet completed
PendingHeads == {h \in Slots : completions[h].kind \in {"tx", "rx"}}

\* the chains the host has taken, and behind them those published in the
\* avail ring it has not yet taken, as the host reads them
PublishedChains ==
    host_seen \o
    [j \in 1 .. U16(avail_idx - host_avail) |->
        host_chain(descs, avail_ring[U16(host_avail + j - 1) % size])]

\* the packet a transmitted chain starts with: its header's address
PktOfChain(c) == c[1].addr \div 16

---------------------------------------------------------------------------
(* C1: the free list and the chains posted and not yet spliced back by    *)
(* do_complete partition the N descriptors: their sizes add up to N, and  *)
(* no descriptor is in both or in neither.                                *)
C1_DescriptorsPartitioned ==
    LET free == SeqSet(FreeList)
        out == UNION {SeqSet(chain_of(descs, h)) : h \in PendingHeads}
    IN /\ Len(FreeList) = Cardinality(free)
       /\ free \cap out = {}
       /\ free \cup out = Slots
       /\ Cardinality(free) + Cardinality(out) = size
       /\ \A g, h \in PendingHeads :
            g # h => SeqSet(chain_of(descs, g)) \cap SeqSet(chain_of(descs, h)) = {}

\* a chain has come back and was spliced behind a non-empty free list while
\* another chain is still out
C1_Witness ==
    /\ used_tail > 0
    /\ PendingHeads # {}
    /\ Len(FreeList) >= 2
    /\ free_head # 0

---------------------------------------------------------------------------
(* C2: in interrupt mode do_complete returns only from the re-read of      *)
(* used.idx after the arm word was stored, and only when that re-read      *)
(* equals used._tail; when the re-read finds an entry the host wrote in    *)
(* between, the same call goes round again, with no notify() and no wait().*)
DcPcs == {"dc_disable", "dc_load", "dc_drain", "dc_recheck"}

ArmWordSet == IF event_index THEN used_event = used_tail
              ELSE BitAnd(avail_flags, VRING_AVAIL_F_NO_INTERRUPT) = 0

C2_RearmRecheck ==
    [][(~poll_mode /\ pc \in DcPcs /\ pc' # pc) =>
         /\ pc' \in DcPcs \cup {"idle"}
         /\ (pc' = "idle" =>
               pc = "dc_recheck" /\ used_idx = used_tail /\ ArmWordSet)
         /\ (pc = "dc_recheck" /\ used_idx # used_tail =>
               /\ pc' = dc_entry
               /\ kick_pending' = kick_pending
               /\ waiting' = waiting
               /\ call_pending' = call_pending)]_vars

\* the host wrote a used entry that the re-read is about to find
C2_Witness ==
    /\ ~poll_mode /\ pc = "dc_recheck"
    /\ used_head_l = used_tail /\ used_idx = U16(used_tail + 1)
    /\ ArmWordSet

---------------------------------------------------------------------------
(* C4: the chains are published in the order of the txq.post calls: the    *)
(* packets of the published chains, in avail ring order, are in call       *)
(* order, in interrupt mode and in poll mode.                              *)
C4_PostedInCallOrder ==
    LET pub == PublishedChains
    IN \A i, j \in 1 .. Len(pub) :
          i < j => PktOfChain(pub[i]) < PktOfChain(pub[j])

\* a packet is suspended for descriptors and the one called after it, which
\* would fit in what is free, waits behind it
C4_Witness ==
    /\ Len(wait_list) >= 2
    /\ wait_list[1].nr > sem
    /\ wait_list[2].nr <= sem
    /\ wait_list[1].a < wait_list[2].a
    /\ Len(PublishedChains) >= 1

---------------------------------------------------------------------------
(* C5: a packet of K fragments is published as one chain of K+1            *)
(* descriptors, the header and then the fragments in order, each read-only *)
(* with the fragment's address and length, and as one avail entry.         *)
ExpectedChain(p) ==
    [i \in 1 .. (pkt_frags[p] + 1) |->
        [addr |-> FragAddr(p, i - 1),
         len |-> IF i = 1 THEN header_len ELSE FragSize(p, i - 1),
         writeable |-> FALSE]]

C5_TxChainShape ==
    LET pub == PublishedChains
    IN /\ \A i \in 1 .. Len(pub) :
            LET p == PktOfChain(pub[i])
            IN /\ p \in 1 .. nsent
               /\ pub[i] = ExpectedChain(p)
       /\ \A i, j \in 1 .. Len(pub) :
            i # j => PktOfChain(pub[i]) # PktOfChain(pub[j])

\* the host has taken a chain of a packet of MaxFrags fragments
C5_Witness ==
    \E i \in 1 .. Len(host_seen) :
        /\ Len(host_seen[i]) = MaxFrags + 1
        /\ pkt_frags[PktOfChain(host_seen[i])] = MaxFrags

---------------------------------------------------------------------------
(* The transmit ring in interrupt mode, with the scheduling the reactor    *)
(* and the host guarantee: the reactor runs its ready tasks and the        *)
(* resolved wait() of the trampoline, the host finishes what it began.     *)

FairInit == Init /\ ~poll_mode

\* the reactor's steps other than the posting task
DriverStep == \/ RunTxDone \/ Kick \/ Wake
              \/ DcDisable \/ DcLoad \/ DcDrainOne \/ DcArm \/ DcRecheck

HostStep == \/ HostWake \/ HostConsume \/ HostEnableNotify \/ HostRecheck
            \/ HostTxUse \/ HostSignal

\* the calls of txq.post in this ring: packets of one fragment
FairSend == Send /\ pkt_frags'[nsent'] = 1

FairNext == FairSend \/ RunTxPost \/ DriverStep \/ HostStep

\* RunTxPost can step exactly when its task is at the head of the queue:
\* vring::post has an outcome in every state
TxPostReady ==
    Running /\ pc = "idle" /\ tasks # <<>> /\ Head(tasks).type = "txpost"

\* weak fairness of RunTxPost, its enabling condition written out
FairTxPost == []<>(~TxPostReady) \/ []<><<RunTxPost>>_vars

FairSpec ==
    /\ FairInit /\ [][FairNext]_vars
    /\ WF_vars(DriverStep) /\ WF_vars(HostStep) /\ FairTxPost

---------------------------------------------------------------------------
(* C3: in interrupt mode, with or without event index, a used entry the    *)
(* host has written is eventually consumed by the drain loop, which fires  *)
(* its completion: none stays behind while the driver waits.               *)
C3_UsedEventuallyConsumed == (used_idx # used_tail) ~> (used_idx = used_tail)

\* a used entry is unconsumed, the driver has nothing left to run and only
\* the notifier can bring it back to the ring
C3_Witness ==
    /\ ~poll_mode /\ used_idx # used_tail
    /\ pc = "idle" /\ waiting /\ tasks = <<>> /\ nsent = MaxSends

---------------------------------------------------------------------------
(* The transmit ring in both modes under the reactor's scheduling: in poll *)
(* mode the reactor also runs the poller again and again.                  *)

FairPollNext == FairSend \/ RunTxPost \/ DriverStep \/ PollTick \/ HostStep

FairPollSpec ==
    /\ Init /\ [][FairPollNext]_vars
    /\ WF_vars(DriverStep) /\ WF_vars(PollTick) /\ WF_vars(HostStep)
    /\ FairTxPost

---------------------------------------------------------------------------
(* C11: kick suppression strands no work.  The host advertises what it    *)
(* has consumed (avail_event, or NO_NOTIFY cleared) and re-checks          *)
(* avail.idx before it sleeps; then every chain head published in          *)
(* avail.idx is eventually consumed by the host, in interrupt and in poll  *)
(* mode, and whenever the host sleeps with published entries it has not    *)
(* consumed, the kick is on its way: notify() was called or vring::kick is *)
(* about to run.                                                           *)
C11_NoStrandedWork ==
    /\ []((host_pc = "sleep" /\ host_avail # avail_idx) =>
            (kick_pending \/ pc = "kick"))
    /\ (host_avail # avail_idx) ~> (host_avail = avail_idx)

\* vring::kick ran after a post and did not notify, while the host had not
\* yet consumed all that is published
C11_Witness ==
    /\ host_avail # avail_idx
    /\ pc # "kick" /\ ~kick_pending
    /\ added_since_kick > 0 /\ batch = <<>>
    /\ host_pc # "sleep"

---------------------------------------------------------------------------
(* C12: avail_added_since_kick is zero right after every notify() and is   *)
(* reset nowhere else: a step of vring::kick either notifies and leaves it *)
(* zero or leaves it as it was, and every other step adds to it the number *)
(* of chains it posted, so that between two kicks it counts the chains     *)
(* posted since the earlier one.                                           *)
C12_AddedSinceKick ==
    [][/\ (pc = "kick" /\ ~kick_pending /\ kick_pending') =>
             added_since_kick' = 0
       /\ (pc = "kick" /\ kick_pending' = kick_pending) =>
             (added_since_kick' = added_since_kick \/ kick_pending)
       /\ pc = "kick" =>
             (added_since_kick' = added_since_kick \/
              (added_since_kick' = 0 /\ kick_pending'))
       /\ pc # "kick" =>
             added_since_kick' =
               U16(added_since_kick + Cardinality(PendingHeads' \ PendingHeads))]_vars

\* an earlier kick notified and two chains were posted since without one
C12_Witness ==
    /\ pc # "kick" /\ ~poll_mode
    /\ added_since_kick = 2
    /\ avail_idx > added_since_kick

---------------------------------------------------------------------------
(* The futures txq.post has returned *)

\* the posts suspended in the semaphore's wait()
SuspendedPosts == {wait_list[i].a : i \in 1 .. Len(wait_list)}

\* the posts whose permits are reserved and whose continuation is queued
QueuedPosts == {tasks[i].a : i \in {j \in 1 .. Len(tasks) : tasks[j].type = "txpost"}}

\* the posts whose chain was handed to vring::post: their future is resolved
ResolvedPosts == (1 .. nsent) \ (SuspendedPosts \cup QueuedPosts)

---------------------------------------------------------------------------
(* C14: the future txq.post returns resolves once the descriptors are      *)
(* reserved and the chain is handed to vring::post, whether or not the     *)
(* host ever writes a used entry, and it stays unresolved exactly while    *)
(* the semaphore holds fewer than nr_frags permits: every suspended post   *)
(* lacks permits.                                                          *)
C14_SuspendedLacksPermits ==
    \A i \in 1 .. Len(wait_list) : wait_list[i].nr > sem

\* C14 as the code has it: every chain of a resolved post is in the avail
\* ring or the batch, none is held back for the host; the oldest suspended
\* post lacks permits, the later ones wait behind it whatever the
\* semaphore holds.
C14_PostFuture ==
    /\ wait_list # <<>> => Head(wait_list).nr > sem
    /\ Cardinality(ResolvedPosts) = U16(avail_head + Len(batch))
    /\ \A i, j \in 1 .. Len(wait_list) : i < j => wait_list[i].a < wait_list[j].a
    /\ ~aborted

\* the host has written no used entry, two posts are resolved and a third
\* is suspended
C14_Witness ==
    /\ used_idx = 0 /\ host_inflight = <<>> /\ host_upc = "idle"
    /\ Cardinality(ResolvedPosts) = 2
    /\ wait_list # <<>>
    /\ pc = "idle"

---------------------------------------------------------------------------
(* C15: no descriptor goes back to the free list before the completion of  *)
(* its chain has fired; a posted chain's completion fires once, with the   *)
(* length of the host's used entry; vring::post never stores a completion  *)
(* over one that has not fired.                                            *)

\* the callbacks of fired completions that the reactor has not run yet
DoneTasks(ts) == SelectSeq(ts, LAMBDA t : t.type \in {"txdone", "rxdone"})

\* the callback of the completion c fired with the length len
DoneTask(c, len) == [type |-> c.kind \o "done", a |-> c.arg, b |-> len]

C15_FreedAfterFired ==
    [][LET ue == used_ring[masked(used_tail)]
           freed_now == SeqSet(FreeList') \ SeqSet(FreeList)
       IN /\ (free_head' # free_head \/ free_last' # free_last \/ descs' # descs) =>
              \A d \in freed_now :
                /\ ue.id \in PendingHeads
                /\ d \in SeqSet(chain_of(descs, ue.id))
                /\ completions'[ue.id] = FiredCompletion
          /\ \A h \in PendingHeads :
                completions'[h] # completions[h] =>
                    /\ h = ue.id /\ used_tail # used_idx
                    /\ completions'[h] = FiredCompletion
                    /\ tasks' = tasks \o <<DoneTask(completions[h], ue.len)>>
                    /\ SeqSet(chain_of(descs, h)) \subseteq SeqSet(FreeList')
          /\ Len(DoneTasks(tasks')) > Len(DoneTasks(tasks)) =>
                /\ ue.id \in PendingHeads
                /\ completions'[ue.id] = FiredCompletion
                /\ Len(DoneTasks(tasks')) = Len(DoneTasks(tasks)) + 1
      ]_vars

\* a completion has fired and its chain is free again while its callback
\* is still queued and another chain's completion is outstanding
C15_Witness ==
    /\ \E h \in Slots :
          /\ completions[h] = FiredCompletion
          /\ SeqSet(chain_of(descs, h)) \subseteq SeqSet(FreeList)
          /\ Len(chain_of(descs, h)) >= 2
    /\ DoneTasks(tasks) # <<>>
    /\ PendingHeads # {}

---------------------------------------------------------------------------
(* C18: in poll mode the driver never arms or disarms the host's           *)
(* interrupts: avail.flags and used_event keep their initial value over    *)
(* every post, flush and poller tick, notifier.wait() is never called, and *)
(* every call of do_complete makes one drain pass: it loads used.idx once, *)
(* drains, and returns.                                                    *)
C18_PollModeNeverArms ==
    /\ [](poll_mode => /\ avail_flags = 0 /\ used_event = 0
                        /\ ~waiting
                        /\ pc \notin {"dc_disable", "dc_recheck"})
    /\ [][poll_mode =>
            /\ avail_flags' = avail_flags /\ used_event' = used_event
            /\ waiting' = waiting
            \* do_complete is entered from the poller only
            /\ (pc' = "dc_load" /\ pc # "dc_load") =>
                   (caller' = "poll" /\ pc \in {"idle", "kick"})
            \* the drain loop over, do_complete returns
            /\ (pc = "dc_drain" /\ pc' # "dc_drain") =>
                   (used_head_l = used_tail /\ pc' = "idle")
            \* what it drains is what the one load of used.idx saw
            /\ pc = "dc_drain" => used_head_l' = used_head_l
         ]_vars

\* without event index, where interrupt mode would store NO_INTERRUPT: the
\* poller's do_complete drains a used entry, not for the first time
C18_Witness ==
    /\ poll_mode /\ ~event_index
    /\ pc = "dc_drain" /\ used_head_l # used_tail /\ used_tail > 0
    /\ avail_flags = 0 /\ call_pending

---------------------------------------------------------------------------
(* The receive queue: qp::rxq and the host writing received packets       *)

\* the address of the b-th buffer malloc returned, b = 1, 2, ...
BufAddr(b) == RxBufLen * b + malloc_off

\* make_buffer_chain, lines 685-729: one writeable buffer of 4096 bytes
\* whose completion owns the buffer
rx_chain(b) ==
    [bufs |-> <<[addr |-> BufAddr(b), len |-> RxBufLen, writeable |-> TRUE]>>,
     completed |-> [kind |-> "rx", arg |-> b]]

\* semaphore::try_wait(nr) succeeds
sem_try_wait(count, nr) == count >= nr

\* the continuation of available.wait(1) in prepare_buffers, lines 680-732:
\* it takes every permit left and posts one buffer per permit.  keep_doing
\* then calls prepare_buffers again, whose wait(1) is taken here: nothing
\* between the post and that call touches the semaphore
RunRxRefill ==
    /\ Running /\ pc = "idle"
    /\ tasks # <<>> /\ Head(tasks).type = "rxrefill"
    /\ LET opportunistic == sem
           got == sem_try_wait(sem, opportunistic)
           count == 1 + (IF got THEN opportunistic ELSE 0)
           left == IF got THEN sem - opportunistic ELSE sem
           w == [type |-> "rxrefill", a |-> 0, nr |-> 1]
       IN /\ next_buf' = next_buf + count
          /\ VringPost([i \in 1 .. count |-> rx_chain(next_buf + i)])
          /\ IF sem_ready(left, wait_list, 1)
             THEN /\ sem' = left - 1
                  /\ tasks' = Append(Tail(tasks), TaskOf(w))
                  /\ wait_list' = wait_list
             ELSE /\ sem' = left
                  /\ tasks' = Tail(tasks)
                  /\ wait_list' = Append(wait_list, w)
    /\ UNCHANGED <<cfg_vars, avail_flags, used_event, used_flags, used_idx,
                   used_ring, avail_event, buf_hdr, used_tail,
                   used_head_l, started, waiting, notifier_vars, host_vars,
                   txq_vars, remaining_buffers, fragments, deleters, delivered,
                   rx_done, pkt_del, freed>>

\* the fragment without the header skip of the first buffer
rx_fragment_whole(first, frag_buf, frag_len) ==
    [base |-> frag_buf, size |-> frag_len]

\* the fragment a completed buffer contributes, lines 695-710: the first
\* buffer of a packet without its header
rx_fragment(first, frag_buf, frag_len) ==
    IF first THEN [base |-> frag_buf + header_len, size |-> frag_len - header_len]
    ELSE [base |-> frag_buf, size |-> frag_len]

\* the fragment put in front
rx_append_front(frags, f) == <<f>> \o frags

\* _fragments.emplace_back, line 710
rx_append(frags, f) == Append(frags, f)

\* hdr->num_buffers as the driver reads it in buffer b: what the host wrote
\* there, anything where it wrote nothing
hdr_num_buffers(b) ==
    IF b \in DOMAIN buf_hdr THEN {buf_hdr[b]} ELSE 0 .. MaxMerge

\* the packet's deleter taking the first buffer only
rx_release_first(dels) == <<Head(dels)>>

\* the buffers whose ownership moves from _deleters into the packet's
\* deleter, lines 715-722: the one buffer by release(), several by the move
\* of the vector
rx_release(dels) == dels

\* one permit returned per packet
rx_permits_one(frags) == 1

\* the permits a delivered packet returns, line 725
rx_permits(frags) == Len(frags)

\* the completion of a receive buffer, lines 694-727
RunRxDone ==
    /\ Running /\ pc = "idle"
    /\ tasks # <<>> /\ Head(tasks).type = "rxdone"
    /\ rx_done' = rx_done + 1
    /\ LET b == Head(tasks).a
           len == Head(tasks).b
           first == remaining_buffers = 0
       IN \E nb \in (IF first THEN hdr_num_buffers(b) ELSE {0}) :
            IF first /\ nb < 1
            THEN /\ aborted' = TRUE
                 /\ pc' = "aborted"
                 /\ tasks' = Tail(tasks)
                 /\ UNCHANGED <<remaining_buffers, fragments, deleters,
                                delivered, sem, wait_list, pkt_del, freed>>
            ELSE LET rem == (IF first THEN nb ELSE remaining_buffers) - 1
                     frags == rx_append(IF first THEN <<>> ELSE fragments,
                                        rx_fragment(first, BufAddr(b), len))
                     dels == Append(IF first THEN <<>> ELSE deleters, b)
                     \* _deleters.clear() frees what the list still owns
                     cleared == IF first THEN deleters ELSE <<>>
                     rel == rx_release(dels)
                     g == sem_signal(sem, wait_list, rx_permits(frags))
                 IN /\ remaining_buffers' = rem
                    /\ freed' = freed \o cleared
                    /\ fragments' = frags
                    /\ UNCHANGED <<aborted, pc>>
                    /\ IF rem = 0
                       THEN /\ deleters' = SelectSeq(dels, LAMBDA d : d \notin SeqSet(rel))
                            /\ pkt_del' = Append(pkt_del, [bufs |-> rel, live |-> TRUE])
                            /\ delivered' = Append(delivered, frags)
                            /\ sem' = g.count
                            /\ wait_list' = g.wl
                            /\ tasks' = Tail(tasks) \o TasksOf(g.granted)
                       ELSE /\ deleters' = dels
                            /\ pkt_del' = pkt_del
                            /\ tasks' = Tail(tasks)
                            /\ UNCHANGED <<delivered, sem, wait_list>>
    /\ UNCHANGED <<cfg_vars, shm_vars, avail_head, added_since_kick, used_tail,
                   completions, free_head, free_last, batch,
                   caller, used_head_l, started, waiting,
                   notifier_vars, host_vars, txq_vars, next_buf>>

\* the length the host reports for buffer i of the M buffers of its p-th
\* packet: the buffers before the last are full, the first holds the header
RxLen(p, i, M) ==
    IF i < M THEN RxBufLen
    ELSE IF i = 1 THEN header_len + 50 + p ELSE 50 + p

\* the buffer a descriptor chain head points at
BufOf(ds, head) == ds[head].paddr \div RxBufLen

\* the host writes buffer i of the M buffers of packet p into the oldest
\* buffer it holds and returns it
host_rx_use(p, i, M) ==
    /\ used_ring' = [used_ring EXCEPT ![used_idx % size] =
                        [id |-> Head(host_inflight), len |-> RxLen(p, i, M)]]
    /\ host_inflight' = Tail(host_inflight)
    /\ used_idx' = U16(used_idx + 1)
    /\ host_rx_left' = M - i
    /\ host_upc' = "signal"

\* a packet arrives and the host holds the M buffers it needs: it writes
\* the header with num_buffers = M and the data into the first
HostRxFirst ==
    /\ host_upc = "idle" /\ host_rx_left = 0
    /\ Len(host_rx_pkts) < MaxRxPkts
    /\ \E M \in {1, MaxMerge} :
         /\ Len(host_inflight) >= M
         /\ host_rx_pkts' = Append(host_rx_pkts, [m |-> M])
         /\ buf_hdr' = (BufOf(descs, Head(host_inflight)) :> M) @@ buf_hdr
         /\ host_rx_use(Len(host_rx_pkts) + 1, 1, M)
    /\ UNCHANGED <<cfg_vars, descs, avail_flags, avail_idx, avail_ring, used_event,
                   used_flags, avail_event, ring_vars, reactor_vars,
                   notifier_vars, host_pc, host_avail, host_seen,
                   txq_vars, rxq_vars>>

\* the host writes the next buffer of the packet it is writing
HostRxMore ==
    /\ host_upc = "idle" /\ host_rx_left > 0
    /\ LET p == Len(host_rx_pkts)
           M == host_rx_pkts[p].m
       IN host_rx_use(p, M - host_rx_left + 1, M)
    /\ UNCHANGED <<cfg_vars, descs, avail_flags, avail_idx, avail_ring, used_event,
                   used_flags, avail_event, buf_hdr, ring_vars, reactor_vars,
                   notifier_vars, host_pc, host_avail, host_seen, host_rx_pkts,
                   txq_vars, rxq_vars>>

\* qp::rxq::run on a constructed receive ring: keep_doing has called
\* prepare_buffers, whose wait(1) succeeded at once, and _ring.run() found
\* the ring empty
RxInit ==
    /\ event_index \in BOOLEAN
    /\ malloc_off \in MallocOffsets
    /\ poll_mode \in BOOLEAN
    /\ header_len = NetHdrMrgLen
    /\ AgreedFeatures
    /\ InitRing(Pow2(RingBits))
    /\ opts = GivenOpts
    /\ sem = size - 1
    /\ InitIdx(0, 0, 0, 0)
    /\ InitHost
    /\ InitReactor("idle", "none", <<[type |-> "rxrefill", a |-> 0, b |-> 1]>>)
    /\ InitQueues

RxNext ==
    \/ RunRxRefill \/ RunRxDone
    \/ Kick \/ PollTick \/ Wake
    \/ DcDisable \/ DcLoad \/ DcDrainOne \/ DcArm \/ DcRecheck
    \/ HostWake \/ HostConsume \/ HostEnableNotify \/ HostRecheck
    \/ HostRxFirst \/ HostRxMore \/ HostSignal

SpecRx == RxInit /\ [][RxNext]_vars

---------------------------------------------------------------------------
(* What the host has written to the receive ring *)

\* the number of buffers of the host's packets before the j-th
RECURSIVE RxBefore(_)
RxBefore(j) == IF j <= 1 THEN 0 ELSE RxBefore(j - 1) + host_rx_pkts[j - 1].m

\* the used entries of the host's packets j, j+1, ... in used-ring order,
\* those it has still to write included: the host fills the buffers in the
\* order it took them
RECURSIVE RxLogFrom(_)
RxLogFrom(j) ==
    IF j > Len(host_rx_pkts) THEN <<>>
    ELSE LET M == host_rx_pkts[j].m
         IN [i \in 1 .. M |->
               [addr |-> host_seen[RxBefore(j) + i][1].addr,
                len |-> RxLen(j, i, M), pkt |-> j, first |-> (i = 1)]]
            \o RxLogFrom(j + 1)

\* the used entries written so far
RxUsedLog == SubSeq(RxLogFrom(1), 1, Len(RxLogFrom(1)) - host_rx_left)

\* the used entries of the host's j-th packet
RxEntriesOf(j) == SelectSeq(RxLogFrom(1), LAMBDA e : e.pkt = j)

RECURSIVE SumLen(_)
SumLen(es) == IF es = <<>> THEN 0 ELSE Head(es).len + SumLen(Tail(es))

RECURSIVE SumSize(_)
SumSize(fs) == IF fs = <<>> THEN 0 ELSE Head(fs).size + SumSize(Tail(fs))

\* the fragments of the packets given to l2receive, in delivery order, each
\* with the number of its packet
RECURSIVE DeliveredFrom(_)
DeliveredFrom(j) ==
    IF j > Len(delivered) THEN <<>>
    ELSE [i \in 1 .. Len(delivered[j]) |-> [frag |-> delivered[j][i], pkt |-> j]]
         \o DeliveredFrom(j + 1)

---------------------------------------------------------------------------
(* C6: from the idle state (_remaining_buffers = 0), when the host returns *)
(* M >= 1 used entries for a packet with num_buffers = M in the first, the *)
(* rxq delivers one packet, at the M-th completion and not before; it has  *)
(* M fragments, (buf0 + header_len, len0 - header_len) and then (buf_i,    *)
(* len_i), of total length sum(len_i) - header_len; then the state is idle *)
(* again and exactly M permits went back to the semaphore.                 *)
C6_RxReassembly ==
    [][rx_done' # rx_done =>
         LET j == Len(delivered) + 1
             M == host_rx_pkts[j].m
             n == rx_done' - RxBefore(j)
             es == RxEntriesOf(j)
         IN /\ (n = 1) <=> (remaining_buffers = 0)
            /\ n \in 1 .. M
            /\ remaining_buffers' = M - n
            /\ IF n = M
               THEN /\ delivered' = Append(delivered, fragments')
                    /\ Len(fragments') = M
                    /\ \A i \in 1 .. M :
                         /\ fragments'[i].base =
                              es[i].addr + (IF i = 1 THEN header_len ELSE 0)
                         /\ fragments'[i].size =
                              es[i].len - (IF i = 1 THEN header_len ELSE 0)
                    /\ SumSize(fragments') = SumLen(es) - header_len
                    /\ sem' + (Len(wait_list) - Len(wait_list')) = sem + M
               ELSE /\ delivered' = delivered
                    /\ sem' = sem /\ wait_list' = wait_list]_vars

\* a packet the host spread over MaxMerge buffers was delivered and the
\* rxq is idle again
C6_Witness ==
    /\ remaining_buffers = 0
    /\ delivered # <<>>
    /\ Len(delivered[Len(delivered)]) = MaxMerge
    /\ rx_done = RxBefore(Len(delivered) + 1)

---------------------------------------------------------------------------
(* C7: the packets are delivered in the order the host completed them in   *)
(* the used ring: the fragments of the delivered packets, in delivery      *)
(* order, are the used entries in used-ring order, each packet made of     *)
(* consecutive entries and of no buffer of another packet.                 *)
C7_RxInUsedOrder ==
    LET D == DeliveredFrom(1)
        U == RxUsedLog
    IN /\ Len(D) <= Len(U)
       /\ \A k \in 1 .. Len(D) :
            /\ D[k].pkt = U[k].pkt
            /\ D[k].frag.base = U[k].addr + (IF U[k].first THEN header_len ELSE 0)
            /\ D[k].frag.size = U[k].len - (IF U[k].first THEN header_len ELSE 0)

\* every packet of the run was delivered, one of them of MaxMerge buffers
\* and one after it
C7_Witness ==
    /\ Len(delivered) = MaxRxPkts
    /\ Len(delivered[1]) = MaxMerge
    /\ Len(DeliveredFrom(1)) = Len(RxUsedLog)

---------------------------------------------------------------------------
(* C13: with a host that marks as used only chains that were published,    *)
(* (avail.idx - used.idx) mod 2^16 lies in [0, N] in every reachable       *)
(* state, and so does the driver's own cursor avail._head, which in poll   *)
(* mode leaves out the unflushed batch, against used._tail.                *)
C13_IndexDistance ==
    /\ U16(avail_idx - used_idx) \in 0 .. size
    /\ U16(avail_head - used_tail) \in 0 .. size

\* the ring is full again after avail.idx wrapped: N chains are out, and
\* avail.idx is numerically below used.idx
C13_Witness ==
    /\ U16(avail_idx - used_idx) = size
    /\ U16(avail_head - used_tail) = size
    /\ avail_idx < used_idx

---------------------------------------------------------------------------
(* C16: the value of the free-descriptor semaphore equals the number of    *)
(* descriptors on the free list in every state between operations, also    *)
(* while a received packet of several buffers is partly reassembled.       *)

\* the permits a queued continuation holds: those its wait() took and it has
\* not allocated yet, or those of the chain do_complete freed and it has
\* not signalled yet
RECURSIVE PermitsHeld(_)
PermitsHeld(ts) ==
    IF ts = <<>> THEN 0
    ELSE PermitsHeld(Tail(ts)) +
         (CASE Head(ts).type = "txpost" -> Head(ts).b
            [] Head(ts).type = "txdone" -> Head(ts).a
            [] Head(ts).type = "rxrefill" -> Head(ts).b
            [] Head(ts).type = "rxdone" -> 1
            [] OTHER -> 0)

\* the freed descriptors of the buffers of a packet under reassembly
PermitsOfPartial == IF remaining_buffers > 0 THEN Len(fragments) ELSE 0

\* no handler is running and no continuation is queued
BetweenOperations == pc = "idle" /\ tasks = <<>> /\ ~aborted

C16_SemEqualsFree == BetweenOperations => sem = Len(FreeList)

\* C16 as the code has it: the semaphore never exceeds the free list; it
\* falls short of it by the permits of the queued continuations and by the
\* buffers of the packet under reassembly, whose permits are returned
\* together at its last buffer.
C16_SemWithinFree ==
    ~aborted =>
        /\ sem + PermitsHeld(tasks) + PermitsOfPartial = Len(FreeList)
        /\ sem <= Len(FreeList)
        /\ (BetweenOperations /\ remaining_buffers = 0) => sem = Len(FreeList)

\* between operations, the first buffer of a two-buffer packet is on the
\* free list and its permit is not in the semaphore
C16_Witness ==
    /\ BetweenOperations
    /\ remaining_buffers > 0
    /\ sem < Len(FreeList)

---------------------------------------------------------------------------
(* The batch of poll mode: the transmit ring in poll mode with a ring that *)
(* holds more than 16 chains, one-fragment packets, and a host that is not *)
(* scheduled during the run: the driver's steps only.                      *)

BatchInit ==
    /\ event_index \in BOOLEAN
    /\ malloc_off = 0
    /\ poll_mode = TRUE
    /\ header_len = NetHdrMrgLen
    /\ AgreedFeatures
    /\ InitRing(Pow2(BatchRingBits))
    /\ opts = GivenOpts
    /\ sem = size
    /\ InitIdx(0, 0, 0, 0)
    /\ InitHost
    /\ InitReactor("idle", "none", <<>>)
    /\ nsent = 0 /\ pkt_frags = [p \in 1 .. MaxBatchSends |-> 0]
    /\ tx_pkt = PlainFrame /\ vhdr = ZeroHdr /\ post_desc_head = 0
    /\ remaining_buffers = 0 /\ fragments = <<>> /\ deleters = <<>>
    /\ delivered = <<>> /\ next_buf = 0 /\ rx_done = 0
    /\ pkt_del = <<>> /\ freed = <<>>

BatchSend == SendOf(MaxBatchSends, {1})

BatchNext ==
    \/ BatchSend \/ RunTxPost
    \/ Kick \/ PollTick \/ DcLoad \/ DcArm

SpecBatch == BatchInit /\ [][BatchNext]_vars

\* a step of vring::post: it stores the completions of the chains it adds
PostStep == PendingHeads' # PendingHeads

\* the heads a step of vring::post adds
PostedHeads == PendingHeads' \ PendingHeads

\* a tick of the poller of vring::run
TickStep == poll_mode /\ pc = "idle" /\ pc' # "idle" /\ ~PostStep

\* the step copies the heads hs to the avail ring from avail.idx on, in
\* their order, advances avail.idx by their number, empties the batch and
\* calls vring::kick
Flushes(hs) ==
    /\ \A i \in 1 .. Len(hs) : avail_ring'[masked(U16(avail_idx + i - 1))] = hs[i]
    /\ \A s \in Slots : (\A i \in 1 .. Len(hs) : s # masked(U16(avail_idx + i - 1)))
                            => avail_ring'[s] = avail_ring[s]
    /\ avail_idx' = U16(avail_idx + Len(hs))
    /\ avail_head' = avail_idx'
    /\ batch' = <<>>
    /\ pc' = "kick"

\* the step leaves the avail ring and avail.idx alone and starts no kick
NoFlush ==
    /\ avail_idx' = avail_idx /\ avail_ring' = avail_ring /\ avail_head' = avail_head
    /\ pc' = "kick" => pc = "kick"

---------------------------------------------------------------------------
---------------------------------------------------------------------------
(* C19: every chain the rxq posts is a single descriptor with              *)
(* writeable = true and len 4096 whose buffer address is a multiple of     *)
(* 4096; no other shape of buffer is handed to the host as writable.       *)

\* the chains posted and not completed yet
RxPosted == {h \in Slots : completions[h].kind = "rx"}

\* the chain at h is one writeable descriptor of 4096 bytes
RxSingleBuffer(h) ==
    /\ ~descs[h].has_next
    /\ descs[h].writeable
    /\ descs[h].len = RxBufLen

C19_RxBufferPageAligned ==
    \A h \in RxPosted : RxSingleBuffer(h) /\ descs[h].paddr % RxBufLen = 0

---------------------------------------------------------------------------
(* The owners of the receive buffers: the receive ring in poll mode, and   *)
(* the network stack dropping the packets it was given, in any order.      *)

RxOwnInit == RxInit /\ poll_mode /\ malloc_off = 0

\* the stack drops a delivered packet: its deleter runs and frees the
\* buffers it owns
DropPacket ==
    /\ \E i \in 1 .. Len(pkt_del) :
         /\ pkt_del[i].live
         /\ pkt_del' = [pkt_del EXCEPT ![i].live = FALSE]
         /\ freed' = freed \o pkt_del[i].bufs
    /\ UNCHANGED <<cfg_vars, shm_vars, ring_vars, reactor_vars, notifier_vars,
                   host_vars, txq_vars, remaining_buffers, fragments, deleters,
                   delivered, next_buf, rx_done>>

RxOwnNext ==
    \/ RunRxRefill \/ RunRxDone
    \/ Kick \/ PollTick
    \/ DcLoad \/ DcDrainOne \/ DcArm
    \/ HostWake \/ HostConsume \/ HostEnableNotify \/ HostRecheck
    \/ HostRxFirst \/ HostRxMore \/ HostSignal
    \/ DropPacket

SpecRxOwn == RxOwnInit /\ [][RxOwnNext]_vars

\* the buffers malloc has returned
RxBufs == 1 .. next_buf

\* the buffer a fragment lies in
FragBuf(f) == f.base \div RxBufLen

\* owned by the completion closure of its posted chain, fired or not
OwnedByClosure(b) ==
    \/ \E h \in RxPosted : completions[h].arg = b
    \/ \E i \in 1 .. Len(tasks) : tasks[i].type = "rxdone" /\ tasks[i].a = b

\* owned by the rxq's accumulation list
OwnedByList(b) == b \in SeqSet(deleters)

\* owned by the deleter of a delivered packet that is not dropped
OwnedByPacket(b) ==
    \E i \in 1 .. Len(pkt_del) : pkt_del[i].live /\ b \in SeqSet(pkt_del[i].bufs)

\* the number of calls of free() on buffer b
FreeCount(b) == Cardinality({i \in 1 .. Len(freed) : freed[i] = b})

\* the number of owners of buffer b
Owners(b) ==
    (IF OwnedByClosure(b) THEN 1 ELSE 0) + (IF OwnedByList(b) THEN 1 ELSE 0)
    + Cardinality({i \in 1 .. Len(pkt_del) :
                      pkt_del[i].live /\ b \in SeqSet(pkt_del[i].bufs)})

---------------------------------------------------------------------------
(* C20: every receive buffer has exactly one owner at any time: the        *)
(* completion closure of its posted chain, then the rxq's accumulation     *)
(* list, then the delivered packet's deleter; it is freed exactly once,    *)
(* when the packet that contains it is dropped, never while posted or      *)
(* referenced by an undelivered or live packet, for packets of one buffer  *)
(* and of several.                                                         *)
C20_BufferOwnedOnce ==
    /\ [](~aborted =>
          /\ \A b \in RxBufs :
                /\ Owners(b) + FreeCount(b) = 1
                /\ FreeCount(b) = 1 =>
                      \E i \in 1 .. Len(pkt_del) :
                          ~pkt_del[i].live /\ b \in SeqSet(pkt_del[i].bufs)
          \* the fragments under reassembly lie in buffers the list owns
          /\ remaining_buffers > 0 =>
                {FragBuf(fragments[i]) : i \in 1 .. Len(fragments)} = SeqSet(deleters)
          /\ remaining_buffers = 0 => deleters = <<>>
          \* the fragments of a delivered packet lie in the buffers its
          \* deleter owns
          /\ Len(pkt_del) = Len(delivered)
          /\ \A i \in 1 .. Len(delivered) :
                {FragBuf(delivered[i][j]) : j \in 1 .. Len(delivered[i])}
                    = SeqSet(pkt_del[i].bufs))
    /\ [][freed' # freed =>
            \E i \in 1 .. Len(pkt_del) :
                /\ pkt_del[i].live /\ ~pkt_del'[i].live
                /\ freed' = freed \o pkt_del[i].bufs]_vars

\* a packet of two buffers and a packet of one buffer were dropped and
\* their buffers freed, while other buffers are posted
C20_Witness ==
    /\ \E i, j \in 1 .. Len(pkt_del) :
          /\ ~pkt_del[i].live /\ Len(pkt_del[i].bufs) = 1
          /\ ~pkt_del[j].live /\ Len(pkt_del[j].bufs) >= 2
    /\ Len(freed) >= 3
    /\ RxPosted # {}

---------------------------------------------------------------------------
(* The negotiation of features: the device is constructed from any options *)
(* and vhost advertises any set of features; qp_vhost::qp_vhost runs once. *)

\* what a vhost may advertise of the features the driver knows
HostOffers == SUBSET {"EVENT_IDX", "MRG_RXBUF", "HOST_TSO4", "HOST_UFO"}

\* the values of virtio-ring-size the runs are given
RingSizeOpts == 0 .. MaxRingSizeOpt

NegInit ==
    /\ opts \in [event_index : {"absent", "on", "off"}, ring_size : RingSizeOpts,
                 csum : BOOLEAN, tso : BOOLEAN, ufo : BOOLEAN]
    /\ features = setup_features(opts.event_index # "off", opts.csum, opts.tso, opts.ufo)
    /\ hw_features = setup_hw_features(opts.csum, opts.tso, opts.ufo)
    /\ host_features \in HostOffers
    /\ negotiated = {}
    /\ event_index = FALSE
    /\ poll_mode \in BOOLEAN
    /\ header_len = 0
    /\ malloc_off = 0
    /\ InitRing(0)
    /\ sem = 0
    /\ InitIdx(0, 0, 0, 0)
    /\ InitHost
    /\ pc = "idle" /\ caller = "none" /\ used_head_l = 0
    /\ tasks = <<>> /\ aborted = FALSE
    /\ started = FALSE /\ waiting = FALSE
    /\ InitQueues

\* qp_vhost::qp_vhost, lines 811-893: the rings are configured by the base
\* class, the features are negotiated with vhost, _txq.run() starts the ring
QpVhost ==
    /\ ~started
    \* qp::qp: the ring of config_ring_size descriptors, vring::setup
    /\ LET n == config_ring_size(opts)
       IN /\ size' = n
          /\ descs' = [i \in 0 .. (n - 1) |-> ZeroDesc(i)]
          /\ avail_ring' = [i \in 0 .. (n - 1) |-> 0]
          /\ used_ring' = [i \in 0 .. (n - 1) |-> [id |-> 0, len |-> 0]]
          /\ completions' = [i \in 0 .. (n - 1) |-> NoCompletion]
          /\ free_head' = 0 /\ free_last' = n - 1
          /\ sem' = n
    /\ negotiated' = host_features \cap features
    /\ event_index' = ring_event_index(features, negotiated')
    /\ header_len' = net_header_len(negotiated')
    /\ started' = TRUE
    /\ waiting' = ~poll_mode
    /\ UNCHANGED <<poll_mode, malloc_off, features, hw_features,
                   host_features, opts, avail_flags, avail_idx, used_event,
                   used_flags, used_idx, avail_event, buf_hdr, avail_head,
                   added_since_kick, used_tail, batch, wait_list,
                   pc, caller, used_head_l,
                   tasks, aborted, notifier_vars, host_vars, txq_vars, rxq_vars>>

NegNext == QpVhost

SpecNeg == NegInit /\ [][NegNext]_vars

---------------------------------------------------------------------------
(* C21: a vring applies the event-index policy only when RING_F_EVENT_IDX  *)
(* is in the negotiated set, offered by the driver and advertised by the   *)
(* host; offered but not advertised, the ring's event_index is false.      *)
C21_EventIndexNegotiated ==
    started => (event_index <=> "EVENT_IDX" \in negotiated)

---------------------------------------------------------------------------
(* The receive ring without mergeable buffers: vhost does not advertise    *)
(* MRG_RXBUF, the header is the 10 bytes of net_hdr, and the host writes   *)
(* every packet into one buffer, header and then the frame.                *)

RxPlainInit ==
    /\ event_index \in BOOLEAN
    /\ malloc_off = 0
    /\ poll_mode \in BOOLEAN
    /\ features = setup_features(event_index, TRUE, TRUE, TRUE)
    /\ hw_features = setup_hw_features(TRUE, TRUE, TRUE)
    /\ host_features = features \ {"MRG_RXBUF"}
    /\ negotiated = host_features \cap features
    /\ header_len = net_header_len(negotiated)
    /\ InitRing(Pow2(RingBits))
    /\ opts = GivenOpts
    /\ sem = size - 1
    /\ InitIdx(0, 0, 0, 0)
    /\ InitHost
    /\ InitReactor("idle", "none", <<[type |-> "rxrefill", a |-> 0, b |-> 1]>>)
    /\ InitQueues

\* a packet arrives: the host writes net_hdr and the frame into the oldest
\* buffer it holds; it writes no num_buffers, the bytes behind the header
\* are the frame's
HostRxPlain ==
    /\ host_upc = "idle" /\ host_rx_left = 0
    /\ Len(host_rx_pkts) < MaxRxPkts
    /\ Len(host_inflight) >= 1
    /\ host_rx_pkts' = Append(host_rx_pkts, [m |-> 1])
    /\ host_rx_use(Len(host_rx_pkts) + 1, 1, 1)
    /\ UNCHANGED <<cfg_vars, descs, avail_flags, avail_idx, avail_ring, used_event,
                   used_flags, avail_event, buf_hdr, ring_vars, reactor_vars,
                   notifier_vars, host_pc, host_avail, host_seen,
                   txq_vars, rxq_vars>>

RxPlainNext ==
    \/ RunRxRefill \/ RunRxDone
    \/ Kick \/ PollTick \/ Wake
    \/ DcDisable \/ DcLoad \/ DcDrainOne \/ DcArm \/ DcRecheck
    \/ HostWake \/ HostConsume \/ HostEnableNotify \/ HostRecheck
    \/ HostRxPlain \/ HostSignal

SpecRxPlain == RxPlainInit /\ [][RxPlainNext]_vars

---------------------------------------------------------------------------
(* C22: without MRG_RXBUF in the negotiated set (header length 10) the     *)
(* rxq reads no num_buffers and delivers every used buffer as its own      *)
(* packet of one fragment (buf + 10, len - 10), whatever the buffer holds: *)
(* no completion aborts or leaves the rxq waiting for more buffers.        *)
C22_PlainRxOnePacketPerBuffer ==
    ("MRG_RXBUF" \notin negotiated) =>
        /\ header_len = NetHdrLen
        /\ ~aborted
        /\ remaining_buffers = 0
        /\ Len(delivered) = rx_done
        /\ \A j \in 1 .. Len(delivered) :
              /\ Len(delivered[j]) = 1
              /\ delivered[j][1].base = RxUsedLog[j].addr + NetHdrLen
              /\ delivered[j][1].size = RxUsedLog[j].len - NetHdrLen

---------------------------------------------------------------------------
(* C23: a configured ring size that is 0, not a power of two or above      *)
(* 32768 is rejected before any ring is constructed: no vring of such a    *)
(* size ever exists.                                                       *)
IsPowerOfTwo(n) == \E k \in 0 .. 15 : n = Pow2(k)

C23_RingSizeValidated ==
    started => IsPowerOfTwo(size) /\ size <= 32768

---------------------------------------------------------------------------
(* The transmit ring with a host that may return an id that is no          *)
(* descriptor of the ring.                                                  *)

\* the host returns the oldest chain it holds under an id beyond the ring
HostBadUse ==
    /\ host_upc = "idle"
    /\ host_inflight # <<>>
    /\ used_ring' = [used_ring EXCEPT ![used_idx % size] =
                        [id |-> Head(host_inflight) + size, len |-> 0]]
    /\ host_inflight' = Tail(host_inflight)
    /\ used_idx' = U16(used_idx + 1)
    /\ host_upc' = "signal"
    /\ UNCHANGED <<cfg_vars, descs, avail_flags, avail_idx, avail_ring, used_event,
                   used_flags, avail_event, buf_hdr, ring_vars, reactor_vars,
                   notifier_vars, host_pc, host_avail, host_seen, host_rx_left,
                   host_rx_pkts, txq_vars, rxq_vars>>

BadHostNext == Next \/ HostBadUse

SpecBadHost == Init /\ [][BadHostNext]_vars

\* the drain loop is at a used entry whose id is outside [0, N) and steps
DrainsBadId ==
    /\ Running /\ pc = "dc_drain" /\ used_head_l # used_tail
    /\ used_ring[masked(used_tail)].id \notin Slots
    /\ (used_tail' # used_tail \/ aborted' # aborted)

(* C24: a runtime invariant violation aborts the process instead of        *)
(* corrupting state: a used entry whose id is outside [0, N) aborts before *)
(* any completion is fired or the free list is modified with that id       *)
(* (and allocate_desc on an empty free list aborts).                       *)
C24_BadUsedIdAborts ==
    [][DrainsBadId =>
         /\ aborted'
         /\ UNCHANGED <<descs, free_head, free_last, completions, tasks>>]_vars

---------------------------------------------------------------------------
(* The header of a transmitted packet, over the options csum-offload, tso  *)
(* and ufo and packets of every protocol around the length mtu + 14.       *)

\* the lengths of the packets: a short one, the longest that needs no
\* segmentation, the next longer ones
TxLens == {MinFrameLen} \cup (Mtu + EthHdrLen .. Mtu + EthHdrLen + MaxOver)

TxPackets ==
    {TxPacket(proto, len, csum) :
        proto \in {"tcp", "udp", "other"}, len \in TxLens, csum \in BOOLEAN}

HdrInit ==
    /\ event_index = TRUE /\ poll_mode = FALSE
    /\ malloc_off = 0
    /\ opts \in [event_index : {"on"}, ring_size : {Pow2(RingBits)},
                 csum : BOOLEAN, tso : BOOLEAN, ufo : BOOLEAN]
    /\ features = setup_features(TRUE, opts.csum, opts.tso, opts.ufo)
    /\ hw_features = setup_hw_features(opts.csum, opts.tso, opts.ufo)
    /\ host_features = features /\ negotiated = features
    /\ header_len = net_header_len(negotiated)
    /\ InitRing(Pow2(RingBits))
    /\ sem = size
    /\ InitIdx(0, 0, 0, 0)
    /\ InitHost
    /\ InitReactor("idle", "none", <<>>)
    /\ nsent = 0 /\ pkt_frags = [p \in Pkts |-> 0]
    /\ tx_pkt \in TxPackets /\ vhdr = ZeroHdr /\ post_desc_head = 0
    /\ remaining_buffers = 0 /\ fragments = <<>> /\ deleters = <<>>
    /\ delivered = <<>> /\ next_buf = 0 /\ rx_done = 0
    /\ pkt_del = <<>> /\ freed = <<>>

\* txq.post of the one packet tx_pkt
HdrSend == SendOf(1, {1})

HdrNext == HdrSend

SpecHdr == HdrInit /\ [][HdrNext]_vars

\* the packet is longer than mtu + eth_hdr_len and the segmentation
\* feature of its protocol is on
NeedsGso(hw, p) ==
    /\ p.len > hw.mtu + EthHdrLen
    /\ \/ p.protocol = "tcp" /\ hw.tx_tso
       \/ p.protocol = "udp" /\ hw.tx_ufo

L4HdrLen(p) == IF p.protocol = "tcp" THEN p.tcp_hdr_len ELSE p.udp_hdr_len

(* C25: for every TX packet, if its length exceeds mtu + eth_hdr_len and   *)
(* the TSO feature (TCP) or the UFO feature (UDP) is on, gso_type is       *)
(* GSO_TCPv4 or GSO_UDP, hdr_len = eth + ip + l4 header length and         *)
(* gso_size = mtu - ip - l4 header length, whatever the checksum-offload   *)
(* setting is; otherwise gso_type, hdr_len and gso_size are zero.          *)
C25_GsoFields ==
    nsent = 1 =>
      IF NeedsGso(hw_features, tx_pkt)
      THEN /\ vhdr.gso_type = (IF tx_pkt.protocol = "tcp" THEN GSO_TCPV4 ELSE GSO_UDP)
           /\ vhdr.hdr_len = EthHdrLen + tx_pkt.ip_hdr_len + L4HdrLen(tx_pkt)
           /\ vhdr.gso_size = hw_features.mtu - tx_pkt.ip_hdr_len - L4HdrLen(tx_pkt)
      ELSE /\ vhdr.gso_type = GSO_NONE
           /\ vhdr.hdr_len = 0
           /\ vhdr.gso_size = 0

---------------------------------------------------------------------------
(* vring::post in interrupt mode statement by statement, the host running  *)
(* between the statements.                                                 *)

\* the notify() ahead of the store of avail.idx
PostOrderKickFirst == <<"post_fill", "post_slot", "post_kick", "post_store">>

\* the statements of vring::post, lines 450-476, in program order: the
\* descriptors and the completion, the avail ring slot, the store of
\* avail.idx, kick()
PostOrder == <<"post_fill", "post_slot", "post_store", "post_kick">>

\* the statement after statement s; do_complete() after the last, line 477
post_after(s) ==
    LET i == CHOOSE j \in 1 .. Len(PostOrder) : PostOrder[j] = s
    IN IF i = Len(PostOrder) THEN dc_entry ELSE PostOrder[i + 1]

PubInit == Init /\ ~poll_mode

\* the continuation of the wait in txq::post calls vring::post
PubStart ==
    /\ Running /\ pc = "idle"
    /\ tasks # <<>> /\ Head(tasks).type = "txpost"
    /\ pc' = PostOrder[1]
    /\ caller' = "task"
    /\ UNCHANGED <<cfg_vars, shm_vars, ring_vars, used_head_l, tasks, started,
                   waiting, aborted, notifier_vars, host_vars, txq_vars, rxq_vars>>

\* lines 451-466: the descriptors of the chain and its completion
PubFill ==
    /\ Running /\ pc = "post_fill"
    /\ LET bc == tx_chain(Head(tasks).a, pkt_frags[Head(tasks).a])
           c == post_bufs([descs |-> descs, fh |-> free_head, fl |-> free_last,
                           head |-> 0, ok |-> TRUE], bc.bufs, 1, -1)
       IN IF ~c.ok
          THEN /\ aborted' = TRUE
               /\ pc' = "aborted"
               /\ UNCHANGED <<descs, free_head, free_last, completions,
                              post_desc_head, tasks>>
          ELSE /\ aborted' = FALSE
               /\ descs' = c.descs
               /\ free_head' = c.fh
               /\ free_last' = c.fl
               /\ completions' = [completions EXCEPT ![c.head] = bc.completed]
               /\ post_desc_head' = c.head
               /\ tasks' = Tail(tasks)
               /\ pc' = post_after("post_fill")
    /\ UNCHANGED <<cfg_vars, avail_flags, avail_idx, avail_ring, used_event,
                   used_flags, used_idx, used_ring, avail_event, buf_hdr,
                   avail_head, added_since_kick, used_tail, batch, sem, wait_list,
                   caller, used_head_l, started, waiting,
                   notifier_vars, host_vars, nsent, pkt_frags, tx_pkt, vhdr,
                   rxq_vars>>

\* lines 467-472: the head into the avail ring, _head++, the count
PubSlot ==
    /\ Running /\ pc = "post_slot"
    /\ LET p == publish_head([ring |-> avail_ring, head |-> avail_head,
                              batch |-> batch], post_desc_head)
       IN /\ avail_ring' = p.ring
          /\ avail_head' = p.head
          /\ batch' = p.batch
    /\ added_since_kick' = U16(added_since_kick + 1)
    /\ pc' = post_after("post_slot")
    /\ UNCHANGED <<cfg_vars, descs, avail_flags, avail_idx, used_event,
                   used_flags, used_idx, used_ring, avail_event, buf_hdr,
                   used_tail, completions, free_head, free_last, sem, wait_list,
                   caller, used_head_l, tasks, started, waiting, aborted,
                   notifier_vars, host_vars, txq_vars, rxq_vars>>

\* line 475: the store of avail.idx
PubStore ==
    /\ Running /\ pc = "post_store"
    /\ avail_idx' = avail_head
    /\ pc' = post_after("post_store")
    /\ UNCHANGED <<cfg_vars, descs, avail_flags, avail_ring, used_event,
                   used_flags, used_idx, used_ring, avail_event, buf_hdr,
                   ring_vars, caller, used_head_l, tasks, started, waiting,
                   aborted, notifier_vars, host_vars, txq_vars, rxq_vars>>

\* line 476: kick()
PubKick ==
    /\ Running /\ pc = "post_kick"
    /\ LET nk == need_kick(event_index, avail_idx, avail_event,
                           added_since_kick, used_flags)
       IN /\ kick_pending' = (nk \/ kick_pending)
          /\ added_since_kick' = added_after_kick(nk, added_since_kick)
    /\ pc' = post_after("post_kick")
    /\ UNCHANGED <<cfg_vars, shm_vars, avail_head, used_tail, completions,
                   free_head, free_last, batch, sem, wait_list,
                   caller, used_head_l, tasks, started, waiting, aborted,
                   call_pending, host_vars, txq_vars, rxq_vars>>

PubNext ==
    \/ Send \/ PubStart \/ PubFill \/ PubSlot \/ PubStore \/ PubKick
    \/ RunTxDone \/ Wake
    \/ DcDisable \/ DcLoad \/ DcDrainOne \/ DcArm \/ DcRecheck
    \/ HostWake \/ HostConsume \/ HostEnableNotify \/ HostRecheck
    \/ HostTxUse \/ HostSignal

SpecPub == PubInit /\ [][PubNext]_vars

\* the chains at the avail ring positions the host may read and has not
\* yet taken, as it would read them now
Unconsumed ==
    [j \in 1 .. U16(avail_idx - host_avail) |->
        avail_ring[U16(host_avail + j - 1) % size]]

\* the chain at head h is written in full: its completion, and the
\* descriptors of one packet handed to txq::post
FullyWritten(h) ==
    LET c == host_chain(descs, h)
    IN /\ completions[h] = [kind |-> "tx", arg |-> Len(c)]
       /\ PktOfChain(c) \in 1 .. nsent
       /\ c = ExpectedChain(PktOfChain(c))

(* C26: the host never observes a published entry that is not fully       *)
(* written: each avail ring position below the published avail.idx and not *)
(* yet consumed holds the head of a chain whose descriptors and completion *)
(* are written, what the host took it read in full, and notify() is never  *)
(* called before the store of avail.idx that covers the written slots.     *)
C26_PublishedFullyWritten ==
    /\ [](/\ \A j \in 1 .. Len(Unconsumed) : FullyWritten(Unconsumed[j])
          /\ \A i \in 1 .. Len(host_seen) :
                host_seen[i] = ExpectedChain(PktOfChain(host_seen[i])))
    /\ [][(~kick_pending /\ kick_pending') => avail_idx = avail_head]_vars

\* the host runs and has taken all that is published while vring::post has
\* written a slot that avail.idx does not cover yet
C26_Witness ==
    /\ pc = "post_store"
    /\ avail_head = U16(avail_idx + 1)
    /\ host_pc = "run" /\ host_avail = avail_idx
    /\ host_seen # <<>>

---------------------------------------------------------------------------
(* The transmit ring over more posts than the counters can count.          *)

\* the calls of txq.post: more than the counters' range
WrapSends == 2 * Pow2(RingBits) + MaxWrapOver

WrapInit ==
    /\ event_index \in BOOLEAN
    /\ malloc_off = 0
    /\ poll_mode \in BOOLEAN
    /\ header_len = NetHdrMrgLen
    /\ AgreedFeatures
    /\ InitRing(Pow2(RingBits))
    /\ opts = GivenOpts
    /\ sem = size
    /\ InitIdx(0, 0, 0, 0)
    /\ InitHost
    /\ InitReactor("idle", "none", <<>>)
    /\ nsent = 0 /\ pkt_frags = [p \in 1 .. WrapSends |-> 0]
    /\ tx_pkt = PlainFrame /\ vhdr = ZeroHdr /\ post_desc_head = 0
    /\ remaining_buffers = 0 /\ fragments = <<>> /\ deleters = <<>>
    /\ delivered = <<>> /\ next_buf = 0 /\ rx_done = 0
    /\ pkt_del = <<>> /\ freed = <<>>

\* packets of the header and one fragment, from a caller that waits for
\* the future of txq.post before it calls again and keeps no more than two
\* packets with the ring
WrapSend ==
    /\ tasks = <<>> /\ wait_list = <<>>
    /\ Cardinality(PendingHeads) < 2
    /\ SendOf(WrapSends, {1})

WrapNext ==
    \/ WrapSend \/ RunTxPost \/ RunTxDone
    \/ Kick \/ PollTick \/ Wake
    \/ DcDisable \/ DcLoad \/ DcDrainOne \/ DcArm \/ DcRecheck
    \/ HostWake \/ HostConsume \/ HostEnableNotify \/ HostRecheck
    \/ HostTxUse \/ HostSignal

SpecWrap == WrapInit /\ [][WrapNext]_vars

\* the number of chains the host has returned through the used ring
Returned == Len(host_seen) - Len(host_inflight)

\* the number of chains do_complete has drained, of pub published ones
Drained(pub) == Len(pub) + Len(batch) - Cardinality(PendingHeads)

(* C27: the ring keeps working across the wrap of the counters: the k-th   *)
(* published chain head is in avail ring slot k mod N, the k-th used entry *)
(* is read from used slot k mod N, avail._head and used._tail count modulo *)
(* 2^w, and the drain loop stops exactly when used._tail equals the loaded *)
(* used.idx.                                                               *)
C27_CountersWrap ==
    /\ [](LET pub == PublishedChains
              d == Drained(pub)
          IN /\ avail_head = Len(pub) % IdxMod
             /\ avail_idx = avail_head
             /\ used_idx = Returned % IdxMod
             /\ used_tail = d % IdxMod
             /\ d <= Returned /\ Returned <= Len(pub)
             /\ \A k \in (d + 1) .. Len(pub) :
                   LET h == avail_ring[(k - 1) % size]
                   IN /\ h \in PendingHeads
                      /\ host_chain(descs, h) = pub[k]
                      /\ PktOfChain(pub[k]) = k
             /\ \A k \in (d + 1) .. Returned :
                   used_ring[(k - 1) % size].id = avail_ring[(k - 1) % size]
             /\ pc = "dc_drain" => d + U16(used_head_l - used_tail) <= Returned)
    /\ [][/\ (pc = "dc_drain" /\ pc' # "dc_drain") => used_tail = used_head_l
          /\ used_tail' # used_tail =>
                LET ue == used_ring[Drained(PublishedChains) % size]
                IN /\ used_tail # used_head_l
                   /\ used_tail' = (used_tail + 1) % IdxMod
                   /\ completions[ue.id].kind = "tx"
                   /\ completions'[ue.id] = FiredCompletion]_vars

\* every packet has gone round the ring, more packets than the counters
\* can count
C27_Witness ==
    /\ Len(PublishedChains) = WrapSends
    /\ Drained(PublishedChains) = WrapSends
    /\ WrapSends > IdxMod
    /\ avail_head = MaxWrapOver /\ used_tail = MaxWrapOver

---------------------------------------------------------------------------
(* The two rings of a qp, each with its queue: a run follows the transmit  *)
(* ring with txq or the receive ring with rxq.                             *)

\* the ring is the rxq's: its refill loop is queued or suspended
RxQueue ==
    \/ \E i \in 1 .. Len(tasks) : tasks[i].type = "rxrefill"
    \/ \E i \in 1 .. Len(wait_list) : wait_list[i].type = "rxrefill"

\* without event index, where do_complete has all its steps
QueuesInit == (Init \/ (RxInit /\ malloc_off = 0)) /\ ~event_index

TxQueueStep == ~RxQueue /\ Next

RxQueueStep == RxQueue /\ RxNext

QueuesNext == TxQueueStep \/ RxQueueStep

SpecQueues == QueuesInit /\ [][QueuesNext]_vars

\* the descriptors the next call of vring::post allocates: the nr_frags of
\* the wait in txq::post, 1 + the opportunistic count in the rx refill
NextPostNeeds ==
    IF pc # "idle" \/ tasks = <<>> THEN 0
    ELSE IF Head(tasks).type = "txpost" THEN Head(tasks).b
    ELSE IF Head(tasks).type = "rxrefill" THEN Head(tasks).b + sem
    ELSE 0

(* C28: allocate_desc is never called on an empty free list: in every      *)
(* reachable state of the tx and of the rx queue the semaphore's count is  *)
(* at most the number of free descriptors, and the chains posted after the *)
(* wait find their descriptors: no post fails.                             *)
C28_AllocateNeverEmpty ==
    LET free == Len(FreeList)
    IN /\ ~aborted
       /\ sem >= 0 /\ sem <= free
       /\ NextPostNeeds <= free
       /\ free_head = -1 <=> free = 0

\* the transmit ring has given out its last descriptor and a post waits
C28_Witness ==
    /\ ~RxQueue
    /\ free_head = -1
    /\ sem = 0 /\ wait_list # <<>>
    /\ pc = "idle" /\ tasks = <<>>

\* the receive ring has given out its last descriptor in a refill
RxRingFull ==
    /\ RxQueue
    /\ free_head = -1
    /\ rx_done > 0

---------------------------------------------------------------------------
(* C29: the free list stays well formed through any sequence of            *)
(* allocate_desc and do_complete: initially 0 -> 1 -> ... -> N-1 with head *)
(* 0 and tail N-1; following next from _free_head reaches _free_last       *)
(* without visiting a descriptor twice and visits exactly the free         *)
(* descriptors; the list is empty exactly when _free_head = _free_last =   *)
(* -1; allocate_desc removes the head; do_complete appends the whole       *)
(* completed chain, in chain order, at the tail, _free_last becoming the   *)
(* chain's last descriptor.                                                *)

\* the list as vring::setup links it
SetupList == [i \in 1 .. size |-> i - 1]

\* the walk from _free_head ends at _free_last, visits no descriptor twice
\* and visits the descriptors of no chain that is out
WellFormed(fl) ==
    LET free == SeqSet(fl)
        out == UNION {SeqSet(chain_of(descs, h)) : h \in PendingHeads}
    IN /\ Len(fl) = Cardinality(free)
       /\ free = Slots \ out
       /\ fl = <<>> <=> (free_head = -1 /\ free_last = -1)
       /\ free_head = -1 <=> free_last = -1
       /\ fl # <<>> => fl[1] = free_head /\ fl[Len(fl)] = free_last

\* a step of vring::post took the first descriptors of the list, in list
\* order, for its chain
TakesHead(fl, fl2) ==
    LET n == Len(fl) - Len(fl2)
    IN /\ n > 0
       /\ fl2 = SubSeq(fl, n + 1, Len(fl))
       /\ \E h \in Slots :
            /\ completions'[h] # completions[h]
            /\ chain_of(descs', h) = SubSeq(fl, 1, n)

\* an iteration of do_complete put the chain of its used entry behind the
\* list
AppendsChain(fl, fl2) ==
    LET c == chain_of(descs, used_ring[masked(used_tail)].id)
    IN /\ fl2 = fl \o c
       /\ free_last' = c[Len(c)]

C29_FreeListWellFormed ==
    /\ (FreeList = SetupList /\ free_head = 0 /\ free_last = size - 1)
    /\ [](WellFormed(FreeList))
    /\ [][IF free_head' = free_head /\ free_last' = free_last /\ descs' = descs
          THEN TRUE
          ELSE LET fl == FreeList
                   fl2 == FreeList'
               IN IF used_tail' # used_tail THEN AppendsChain(fl, fl2)
                  ELSE TakesHead(fl, fl2)]_vars

\* do_complete is about to put a chain of several descriptors behind a list
\* that allocate_desc has emptied
C29_Witness ==
    /\ pc = "dc_drain" /\ used_head_l # used_tail
    /\ free_head = -1 /\ free_last = -1
    /\ descs[used_ring[masked(used_tail)].id].has_next

---------------------------------------------------------------------------
(* The kick policy on arbitrary ring words: vring::kick runs once, after   *)
(* a post that added at least one chain, with any avail.idx, avail_event,  *)
(* count of chains added since the last kick and NO_NOTIFY flag.           *)

KickInit ==
    /\ event_index \in BOOLEAN
    /\ malloc_off = 0
    /\ poll_mode \in BOOLEAN
    /\ header_len = NetHdrMrgLen
    /\ AgreedFeatures
    /\ InitRing(Pow2(RingBits))
    /\ opts = GivenOpts
    /\ sem = size
    /\ \E aidx \in 0 .. (IdxMod - 1), aevent \in 0 .. (IdxMod - 1),
          added \in 1 .. (IdxMod - 1), uflags \in {0, VRING_USED_F_NO_NOTIFY} :
            InitIdx(aidx, aevent, added, uflags)
    /\ InitHost
    /\ InitReactor("kick", "task", <<>>)
    /\ InitQueues

KickNext == Kick

SpecKick == KickInit /\ [][KickNext]_vars

\* this step of vring::kick calls notifier.notify()
KickNotifies == ~kick_pending /\ kick_pending'

---------------------------------------------------------------------------
(* C8: with event index and fewer chains added since the last kick than    *)
(* the forced-kick threshold, vring::kick calls notify() if and only if    *)
(* (uint16)(avail.idx - avail_event - 1) < added: it does for avail_event  *)
(* = avail.idx - 1 - k with 0 <= k < added, and does not for avail_event   *)
(* = avail.idx.                                                            *)
C8_EventIndexKick ==
    [][(pc = "kick" /\ event_index /\ added_since_kick < KickThreshold) =>
         /\ KickNotifies <=> (U16(avail_idx - avail_event - 1) < added_since_kick)
         /\ (\E k \in 0 .. (added_since_kick - 1) :
                avail_event = U16(avail_idx - 1 - k)) => KickNotifies
         /\ avail_event = avail_idx => ~KickNotifies]_vars

\* kick ran with avail_event = avail.idx and chains added below the
\* threshold, and did not notify
C8_Witness ==
    /\ event_index /\ pc # "kick" /\ ~kick_pending
    /\ avail_event = avail_idx
    /\ added_since_kick > 0 /\ added_since_kick < KickThreshold

---------------------------------------------------------------------------
---------------------------------------------------------------------------
(* C10: whenever vring::kick runs with 2^15 or more chains added since the *)
(* last kick, notify() is called, whatever avail_event or NO_NOTIFY say,   *)
(* with and without event index.  At the model's counter width 2^15 is     *)
(* half of IdxMod.                                                         *)
HalfRange == IdxMod \div 2

C10_ForcedKickAlways ==
    [][(pc = "kick" /\ added_since_kick >= HalfRange) => KickNotifies]_vars

\* C10 as the code has it: with event index the kick is forced whatever
\* avail_event says; without event index the NO_NOTIFY bit alone decides,
\* however many chains were added.
C10_ForcedKickEventIndex ==
    [][(pc = "kick" /\ added_since_kick >= HalfRange) =>
         /\ event_index => KickNotifies
         /\ ~event_index /\ notifications_disabled(used_flags) => ~KickNotifies]_vars

\* kick ran with event index and notified although avail_event = avail.idx
\* asked for no kick: the kick was forced
C10_Witness ==
    /\ event_index /\ pc # "kick" /\ kick_pending
    /\ avail_event = avail_idx
    /\ added_since_kick = 0

===========================================================================
